---- MODULE Spec2Model ----
(***************************************************************************)
(* A model of the expression-template core of ETL: the expression builders *)
(* and their size validation (checks.hpp, binary_expression_builder.hpp,   *)
(* crtp/assignable.hpp), the expression optimizer (optimizer.hpp) and the  *)
(* implementation selectors (impl/sum.hpp, impl/dot.hpp).                  *)
(*                                                                         *)
(* The model is of a build with assertions enabled (cpp_assert aborts).    *)
(* The element type T of the optimizer model is double: values are exact   *)
(* rationals extended with signed zeros, infinities and NaN.  The element  *)
(* type of the containers of the assignment model is int.                  *)
(***************************************************************************)
EXTENDS Integers, Sequences, FiniteSets, TLC

VARIABLES
    \* ---- optimizer (optimizer.hpp) ----
    orig,       \* the expression handed to optimized_forward
    cur,        \* the expression the current optimized_forward frame holds
    prev,       \* the expression before the last optimize call
    passes,     \* number of optimize calls made by optimized_forward so far
    results,    \* number of times the result functor has been invoked
    opc,        \* position: "build", "run", "lost", "done" (result called), "evaluated"
    a_mem,      \* the content of the value container `a` the leaves refer to
    d_orig,     \* destination after evaluating orig into it
    d_opt       \* destination after evaluating the optimized expression into it

VARIABLES
    \* ---- builders and assignment (binary_expression_builder.hpp, checks.hpp) ----
    b_res,      \* the last builder call: builder, operands and outcome
    dst,        \* the destination container: [gen, fast, dims, start, data]
    asg,        \* the last assignment to dst: operator, source, steps and outcome
    n_asg       \* number of assignments made to dst

VARIABLES
    \* ---- implementation selection (impl/sum.hpp, impl/dot.hpp) ----
    flags,      \* the build's backend flags: vec_enabled, cblas_enabled, cublas_enabled, mkl_enabled
    ctx,        \* local_context(): the forced selector of each operation family
    sel,        \* the last selector call: family, operand traits, arguments and result
    last        \* the selector call before it

VARIABLES
    \* ---- dispatch (impl/sum.hpp, impl/dot.hpp, impl/transpose.hpp, expr/gemv_expr.hpp) ----
    call        \* the last operation dispatched: family, operands, selection and kernel

VARIABLES
    \* ---- serial or parallel execution (impl/sum.hpp, impl/conv.hpp) ----
    p_cfg,      \* the build and the context: parallel, serial, thresholds
    p_in,       \* the operands: the elements of e, the size of the kernel of a convolution
    par         \* the operation run: mode, partial results of the workers, result

VARIABLES
    \* ---- kernels and memory coherence (impl/vec/gemm.hpp, impl/cudnn, impl/cublas) ----
    coh,        \* the coherence handle of each container: is the CPU side, the GPU side valid
    kern        \* the kernel run: its calls, the position, the sides ensured, read and written

VARIABLES
    \* ---- function builders (builder/function_expression_builder.hpp) ----
    fn_x,       \* the content of the container the builder is called on
    fn          \* the last builder call: the node, the reductions computed, the evaluation

VARIABLES
    \* ---- transposition (impl/transpose.hpp) ----
    tp,         \* the transposition run: the extents, the start of c, the path, the position
    tp_mem      \* the memory the operand and the destination lie in

VARIABLES
    \* ---- element access (sparse.hpp, op/dyn_matrix_view.hpp, op/memory_slice_view.hpp) ----
    acc         \* the last element access: the object, the indices and the outcome

VARIABLES
    \* ---- GPU backend calls (impl/cudnn/cudnn.hpp, impl/cudnn/sigmoid.hpp) ----
    cud         \* the cudnn kernel run: the position, the handles, the failed call

VARIABLES
    \* ---- temporary expressions (expr/gemv_expr.hpp, bias_add_expr.hpp, conv_1d_full_expr.hpp) ----
    tmp         \* the last assign_to of a temporary expression: the extents and the statements run

VARIABLES
    \* ---- optimizer of temporary expressions (optimizer.hpp) ----
    topt        \* the last optimize call on a temporary node: the node and the node handed on

VARIABLES
    \* ---- vectorized matrix products (impl/vec/gemm.hpp, gemm_cr_to_c.hpp, gemm_rc_to_c.hpp) ----
    gm          \* the last product: the function, the sizes, the matrices, the memory of c

VARIABLES
    \* ---- sparse matrix (sparse.hpp) ----
    sp          \* the stored entries in storage order, the proxy references alive, the last operation

opt_vars == <<orig, cur, prev, passes, results, opc, a_mem, d_orig, d_opt>>
build_vars == <<b_res, dst, asg, n_asg>>
sel_vars == <<flags, ctx, sel, last>>
disp_vars == <<call>>
par_vars == <<p_cfg, p_in, par>>
coh_vars == <<coh, kern>>
fn_vars == <<fn_x, fn>>
tp_vars == <<tp, tp_mem>>

acc_vars == <<acc>>

cud_vars == <<cud>>
tmp_vars == <<tmp>>
topt_vars == <<topt>>
gm_vars == <<gm>>
sp_vars == <<sp>>
\* the parts of the element access, the sparse matrix, the temporary
\* expressions and the product kernels
more_vars == <<acc_vars, cud_vars, tmp_vars, topt_vars, gm_vars, sp_vars>>
\* the parts before these
base_vars == <<opt_vars, build_vars, sel_vars, disp_vars, par_vars, coh_vars, fn_vars, tp_vars>>
but_acc == <<base_vars, cud_vars, tmp_vars, topt_vars, gm_vars, sp_vars>>
but_cud == <<base_vars, acc_vars, tmp_vars, topt_vars, gm_vars, sp_vars>>
but_tmp == <<base_vars, acc_vars, cud_vars, topt_vars, gm_vars, sp_vars>>
but_topt == <<base_vars, acc_vars, cud_vars, tmp_vars, gm_vars, sp_vars>>
but_gm == <<base_vars, acc_vars, cud_vars, tmp_vars, topt_vars, sp_vars>>
but_sp == <<base_vars, acc_vars, cud_vars, tmp_vars, topt_vars, gm_vars>>

\* the parts added to the first three
ext_vars == <<disp_vars, par_vars, coh_vars, fn_vars, tp_vars, more_vars>>
\* the parts added other than one
not_disp == <<par_vars, coh_vars, fn_vars, tp_vars, more_vars>>
not_par == <<disp_vars, coh_vars, fn_vars, tp_vars, more_vars>>
not_coh == <<disp_vars, par_vars, fn_vars, tp_vars, more_vars>>
not_fn == <<disp_vars, par_vars, coh_vars, tp_vars, more_vars>>
not_tp == <<disp_vars, par_vars, coh_vars, fn_vars, more_vars>>

vars == <<opt_vars, build_vars, sel_vars, ext_vars>>

-----------------------------------------------------------------------------
(* Bounds *)

MaxNodes == 2       \* a builder is applied to an expression of fewer operator nodes
VecLen == 1         \* elements of the container `a` and of the destination
MaxDim == 3         \* largest extent of one dimension of a container
MaxAssign == 1      \* assignments made to the destination container
MaxStart == 1       \* largest start value of a sequence generator
MaxForced == 1      \* operation families with a forced implementation at one time
MaxLen == 3         \* elements of the operand of a reduction or convolution
MaxThreshold == 3   \* largest parallel threshold of a build
Threads == 3        \* sub-ranges of a parallel dispatch
MaxFnLen == 3       \* elements of the container a function builder is called on
MaxTrDim == 3       \* largest extent of a transposed matrix
MaxAccDim == 2      \* largest extent of an object whose elements are accessed
MaxTmpDim == 2      \* largest extent of an operand of a temporary expression
MaxGemmDim == 2     \* largest extent of an operand of a vectorized product
MaxSparseDim == 2   \* rows and columns of the sparse matrix
MaxStored == 4      \* largest number of stored entries of the sparse matrix

\* the extents of the matrices of a product
MatDims == {1, 2}

-----------------------------------------------------------------------------
(* Operands of the builders: value containers and generators *)

RECURSIVE Prod(_)
Prod(ds) == IF Len(ds) = 0 THEN 1 ELSE Head(ds) * Prod(Tail(ds))

\* etl::size(expr) of a container of the given dimensions
size(x) == Prod(x.dims)

\* vectors of 1..MaxDim elements and matrices of 2..MaxDim rows and columns
Shapes == {<<n>> : n \in 1..MaxDim} \cup {<<r, c>> : r \in 2..MaxDim, c \in 2..MaxDim}

\* a container filled with one value (fast: dimensions known at compile time)
Containers == [gen : {FALSE}, fast : BOOLEAN, dims : Shapes, start : {1}]
\* sequence_generator(start)
Generators == [gen : {TRUE}, fast : {FALSE}, dims : {<<>>}, start : 0..MaxStart]
BuildOperands == Containers \cup Generators

\* a faulty validate_expression_impl: the dynamic overload asserts nothing
validate_expression_unchecked(lhs, rhs) ==
    IF lhs.gen \/ rhs.gen THEN "ok"
    ELSE IF ~(lhs.fast /\ rhs.fast) THEN "ok"
         ELSE (IF size(lhs) = size(rhs) THEN "ok" ELSE "static_assert")

\* a faulty validate_expression_impl: the dynamic overload compares every dimension
validate_expression_by_dims(lhs, rhs) ==
    IF lhs.gen \/ rhs.gen THEN "ok"
    ELSE IF ~(lhs.fast /\ rhs.fast)
         THEN (IF lhs.dims = rhs.dims THEN "ok" ELSE "assert")
         ELSE (IF size(lhs) = size(rhs) THEN "ok" ELSE "static_assert")

\* checks.hpp: validate_expression_impl, one branch per overload
validate_expression_impl(lhs, rhs) ==
    IF lhs.gen \/ rhs.gen THEN "ok"
    ELSE IF ~(lhs.fast /\ rhs.fast)
         THEN (IF size(lhs) = size(rhs) THEN "ok" ELSE "assert")
         ELSE (IF size(lhs) = size(rhs) THEN "ok" ELSE "static_assert")

\* a faulty validate_assign: no overload for a generator, its size is compared
validate_assign_sized(lhs, rhs) ==
    IF ~(lhs.fast /\ rhs.fast)
    THEN (IF size(lhs) = size(rhs) THEN "ok" ELSE "assert")
    ELSE (IF size(lhs) = size(rhs) THEN "ok" ELSE "static_assert")

\* checks.hpp: validate_assign for an ETL expression rhs, one branch per overload
validate_assign(lhs, rhs) ==
    IF rhs.gen THEN "ok"
    ELSE IF ~(lhs.fast /\ rhs.fast)
         THEN (IF size(lhs) = size(rhs) THEN "ok" ELSE "assert")
         ELSE (IF size(lhs) = size(rhs) THEN "ok" ELSE "static_assert")

\* binary_expression_builder.hpp: the builders taking two ETL expressions
ArithmeticBuilders == {"operator-", "operator+", "operator>>", "scale", "operator/", "operator%"}
ComparisonBuilders ==
    {"equal", "not_equal", "less", "less_equal", "greater", "greater_equal",
     "logical_and", "logical_xor", "logical_or"}
Builders == ArithmeticBuilders \cup ComparisonBuilders

\* the outcome of the builder body: the arithmetic builders call
\* validate_expression and return the node, the others return the node at once
builder_body(b, lhs, rhs) ==
    IF b \in ArithmeticBuilders
    THEN (IF validate_expression_impl(lhs, rhs) = "ok" THEN "node"
          ELSE validate_expression_impl(lhs, rhs))
    ELSE "node"

-----------------------------------------------------------------------------
(* Assignment to a container *)

AssignOps == {"=", "+=", "-=", "*=", ">>=", "/=", "%="}

\* integer division and remainder of C++ (truncation toward zero)
TruncDiv(x, y) ==
    IF (x >= 0) = (y > 0)
    THEN (IF x >= 0 THEN x \div y ELSE (-x) \div (-y))
    ELSE -((IF x >= 0 THEN x ELSE -x) \div (IF y > 0 THEN y ELSE -y))
TruncMod(x, y) == x - y * TruncDiv(x, y)

\* a faulty generator: operator() returns ++current
SourceElem_preincrement(src, k) == IF src.gen THEN src.start + k ELSE src.start

\* element k (counted from 1) read from the source during one evaluation:
\* sequence_generator_op::operator() returns current++, a container its element
SourceElem(src, k) == IF src.gen THEN src.start + (k - 1) ELSE src.start

\* what the assignment stores into an element holding x when the source gives y
store(op, x, y) ==
    CASE op = "=" -> y
      [] op = "+=" -> x + y
      [] op = "-=" -> x - y
      [] op \in {"*=", ">>="} -> x * y
      [] op = "/=" -> TruncDiv(x, y)
      [] op = "%=" -> TruncMod(x, y)

\* assign_to / assign_add_to / ...: one element of the source per element of lhs
assign_to(op, lhs, src) == [k \in 1..size(lhs) |-> store(op, lhs.data[k], SourceElem(src, k))]

\* the validation an assignment operator runs: validate_assign in operator=,
\* validate_expression in the compound operators
validation(op, lhs, src) ==
    IF op = "=" THEN validate_assign(lhs, src) ELSE validate_expression_impl(lhs, src)

\* a faulty assignment operator: the source is evaluated into lhs, then validated
assign_operator_unordered(op, lhs, src) ==
    [steps |-> <<"evaluate", "validate">>, outcome |-> validation(op, lhs, src),
     data |-> assign_to(op, lhs, src), read |-> size(lhs)]

\* assignable::operator= and operator+=, -=, *=, >>=, /=, %= on an expression:
\* validate, then evaluate into lhs.  The value is the steps run, the outcome,
\* the data of lhs afterwards and the number of source elements read.
assign_operator(op, lhs, src) ==
    IF validation(op, lhs, src) = "ok"
    THEN [steps |-> <<"validate", "evaluate">>, outcome |-> "ok",
          data |-> assign_to(op, lhs, src), read |-> size(lhs)]
    ELSE [steps |-> <<"validate">>, outcome |-> validation(op, lhs, src),
          data |-> lhs.data, read |-> 0]

NoCall == [builder |-> "none", lhs |-> <<>>, rhs |-> <<>>, outcome |-> "none"]
NoAssign == [op |-> "none", src |-> <<>>, steps |-> <<>>, outcome |-> "none",
             before |-> <<>>, read |-> 0]

InitBuilderVars == b_res = NoCall

\* the destination is constructed with elements 1, 2, ...
InitAssignVars ==
    /\ \E f \in BOOLEAN, ds \in Shapes :
          dst = [gen |-> FALSE, fast |-> f, dims |-> ds, start |-> 0,
                 data |-> [k \in 1..Prod(ds) |-> k]]
    /\ asg = NoAssign
    /\ n_asg = 0

\* a call of one of the builders; a call the compiler rejects is no call
BuilderCall ==
    /\ b_res = NoCall
    /\ \E b \in Builders, lhs \in BuildOperands, rhs \in BuildOperands :
          /\ builder_body(b, lhs, rhs) # "static_assert"
          /\ b_res' = [builder |-> b, lhs |-> lhs, rhs |-> rhs,
                       outcome |-> builder_body(b, lhs, rhs)]
    /\ UNCHANGED <<dst, asg, n_asg>>
    /\ UNCHANGED <<opt_vars, sel_vars, ext_vars>>

\* dst op src; the divisors of /= and %= are not zero
Assign ==
    /\ n_asg < MaxAssign
    /\ \E op \in AssignOps, src \in BuildOperands :
          /\ op \in {"/=", "%="} => \A k \in 1..size(dst) : SourceElem(src, k) # 0
          /\ validation(op, dst, src) # "static_assert"
          /\ LET r == assign_operator(op, dst, src)
             IN
              /\ asg' = [op |-> op, src |-> src, steps |-> r.steps, outcome |-> r.outcome,
                         before |-> dst.data, read |-> r.read]
              /\ dst' = [dst EXCEPT !.data = r.data]
    /\ n_asg' = n_asg + 1
    /\ UNCHANGED b_res
    /\ UNCHANGED <<opt_vars, sel_vars, ext_vars>>

-----------------------------------------------------------------------------
(* Implementation selection: impl/sum.hpp, impl/dot.hpp *)

Impls == {"STD", "VEC", "BLAS", "CUBLAS"}

\* the static traits of the operand types a selector is instantiated with
\* (all_dma, all_floating, all_vectorizable, same default intrinsic type)
Traits == [dma : BOOLEAN, floating : BOOLEAN, vec : BOOLEAN, same_intrinsic : BOOLEAN]
\* sum has one operand
SumTraits == {t \in Traits : t.same_intrinsic}
\* dot does not look at the value type being floating point
DotTraits == {t \in Traits : t.floating}

Unforced == [forced |-> FALSE, impl |-> "STD"]

\* the operation families with a selector in local_context(): sum_selector,
\* dot_selector, gemm_selector (read by gemv) and transpose_selector
Families == {"sum", "dot", "gemm", "transpose"}

\* the enumerators of a family's implementation type that its selector and
\* its dispatcher name
ImplsOf(fam) == IF fam = "transpose" THEN {"STD", "MKL", "CUBLAS"} ELSE Impls

Flags == [vec_enabled : BOOLEAN, cblas_enabled : BOOLEAN, cublas_enabled : BOOLEAN,
          mkl_enabled : BOOLEAN]

select_default_sum_impl(E, gpu_up_to_date) ==
    IF flags.cublas_enabled /\ E.dma /\ E.floating /\ gpu_up_to_date THEN "CUBLAS"
    ELSE IF flags.vec_enabled /\ E.vec THEN "VEC"
    ELSE "STD"

\* a faulty select_sum_impl: it reads the forced selector of the dot family
select_sum_impl_shared(E, gpu_up_to_date) ==
    IF ctx.dot.forced
    THEN LET forced == ctx.dot.impl
         IN  CASE forced = "VEC" ->
                    IF ~flags.vec_enabled \/ ~E.vec
                    THEN select_default_sum_impl(E, gpu_up_to_date) ELSE forced
               [] forced = "CUBLAS" ->
                    IF ~flags.cublas_enabled \/ ~E.dma \/ ~E.floating
                    THEN select_default_sum_impl(E, gpu_up_to_date) ELSE forced
               [] forced = "BLAS" ->
                    IF ~flags.cblas_enabled \/ ~E.dma \/ ~E.floating
                    THEN select_default_sum_impl(E, gpu_up_to_date) ELSE forced
               [] OTHER -> forced
    ELSE select_default_sum_impl(E, gpu_up_to_date)

select_sum_impl(E, gpu_up_to_date) ==
    IF ctx.sum.forced
    THEN LET forced == ctx.sum.impl
         IN  CASE forced = "VEC" ->
                    IF ~flags.vec_enabled \/ ~E.vec
                    THEN select_default_sum_impl(E, gpu_up_to_date) ELSE forced
               [] forced = "CUBLAS" ->
                    IF ~flags.cublas_enabled \/ ~E.dma \/ ~E.floating
                    THEN select_default_sum_impl(E, gpu_up_to_date) ELSE forced
               [] forced = "BLAS" ->
                    IF ~flags.cblas_enabled \/ ~E.dma \/ ~E.floating
                    THEN select_default_sum_impl(E, gpu_up_to_date) ELSE forced
               [] OTHER -> forced
    ELSE select_default_sum_impl(E, gpu_up_to_date)

select_default_dot_impl(AB) ==
    IF AB.dma /\ flags.cblas_enabled THEN "BLAS"
    ELSE IF flags.vec_enabled /\ AB.vec /\ AB.same_intrinsic THEN "VEC"
    ELSE "STD"

select_dot_impl(AB) ==
    IF ctx.dot.forced
    THEN LET forced == ctx.dot.impl
         IN  CASE forced = "CUBLAS" ->
                    IF ~flags.cublas_enabled \/ ~AB.dma
                    THEN select_default_dot_impl(AB) ELSE forced
               [] forced = "BLAS" ->
                    IF ~flags.cblas_enabled \/ ~AB.dma
                    THEN select_default_dot_impl(AB) ELSE forced
               [] forced = "VEC" ->
                    IF ~flags.vec_enabled \/ ~AB.vec
                    THEN select_default_dot_impl(AB) ELSE forced
               [] OTHER -> forced
    ELSE select_default_dot_impl(AB)

NoSelection == [family |-> "none", traits |-> [dma |-> FALSE, floating |-> FALSE,
                vec |-> FALSE, same_intrinsic |-> FALSE],
                gpu_up_to_date |-> FALSE, forced |-> FALSE, impl |-> "none"]

InitSelVars ==
    \* sum and dot do not read mkl_enabled
    /\ flags \in {f \in Flags : ~f.mkl_enabled}
    /\ ctx = [fam \in Families |-> Unforced]
    /\ sel = NoSelection
    /\ last = NoSelection

\* a scope forcing an implementation of one of the families fams is entered
force(fams) ==
    /\ Cardinality({f \in Families : ctx[f].forced}) < MaxForced
    /\ \E fam \in fams :
          /\ ~ctx[fam].forced
          /\ \E impl \in ImplsOf(fam) :
                ctx' = [ctx EXCEPT ![fam] = [forced |-> TRUE, impl |-> impl]]

\* the scope is left: the selector it replaced is restored
release(fams) ==
    \E fam \in fams :
       /\ ctx[fam].forced
       /\ ctx' = [ctx EXCEPT ![fam] = Unforced]

Force ==
    /\ force({"sum", "dot"})
    /\ UNCHANGED <<flags, sel, last>>
    /\ UNCHANGED <<opt_vars, build_vars, ext_vars>>

Release ==
    /\ release({"sum", "dot"})
    /\ UNCHANGED <<flags, sel, last>>
    /\ UNCHANGED <<opt_vars, build_vars, ext_vars>>

\* sum_impl::apply: select_sum_impl<E>(safe_is_gpu_up_to_date(e))
SelectSum ==
    /\ \E E \in SumTraits, gpu \in BOOLEAN :
          sel' = [family |-> "sum", traits |-> E, gpu_up_to_date |-> gpu,
                  forced |-> ctx.sum.forced, impl |-> select_sum_impl(E, gpu)]
    /\ last' = sel
    /\ UNCHANGED <<flags, ctx>>
    /\ UNCHANGED <<opt_vars, build_vars, ext_vars>>

\* dot_impl::apply: select_dot_impl<A, B>()
SelectDot ==
    /\ \E AB \in DotTraits :
          sel' = [family |-> "dot", traits |-> AB, gpu_up_to_date |-> FALSE,
                  forced |-> ctx.dot.forced, impl |-> select_dot_impl(AB)]
    /\ last' = sel
    /\ UNCHANGED <<flags, ctx>>
    /\ UNCHANGED <<opt_vars, build_vars, ext_vars>>

-----------------------------------------------------------------------------
(* Implementation selection of gemv and transpose (expr/gemv_expr.hpp,     *)
(* impl/transpose.hpp) and the dispatchers of the four families.  The      *)
(* build is one without ETL_SLOW_MKL.                                      *)

\* the extents of the matrix of a matrix-vector product
GemvDims == {1000, 1001}

\* all_vectorizable_t<vector_mode, A, B, C>, all_homogeneous<A, B, C> and
\* is_complex_single_t<value_t<A>>
GemvTraits == [vec : BOOLEAN, homo : BOOLEAN, complex_single : BOOLEAN]

\* of the source type A and the destination type C of a transposition
TransposeTraits == [dma_a : BOOLEAN, floating_a : BOOLEAN, dma_c : BOOLEAN, floating_c : BOOLEAN]

\* a faulty select_default_gemv_impl: the vendor BLAS kernel comes first
select_default_gemv_impl_blas_first(T, n1, n2) ==
    IF flags.cblas_enabled /\ T.homo THEN "BLAS"
    ELSE IF T.vec /\ flags.vec_enabled /\ T.homo THEN "VEC"
    ELSE IF flags.cublas_enabled /\ T.complex_single /\ n1 * n2 > 1000 * 1000 /\ T.homo
         THEN "CUBLAS"
    ELSE "STD"

select_default_gemv_impl(T, n1, n2) ==
    IF T.vec /\ flags.vec_enabled /\ T.homo THEN "VEC"
    ELSE IF flags.cblas_enabled /\ T.homo THEN "BLAS"
    ELSE IF flags.cublas_enabled /\ T.complex_single /\ n1 * n2 > 1000 * 1000 /\ T.homo
         THEN "CUBLAS"
    ELSE "STD"

select_gemv_impl(T, n1, n2) ==
    IF ctx.gemm.forced
    THEN LET forced == ctx.gemm.impl
         IN  CASE forced = "CUBLAS" ->
                    IF ~flags.cublas_enabled \/ ~T.homo
                    THEN select_default_gemv_impl(T, n1, n2) ELSE forced
               [] forced = "BLAS" ->
                    IF ~flags.cblas_enabled \/ ~T.homo
                    THEN select_default_gemv_impl(T, n1, n2) ELSE forced
               [] forced = "VEC" ->
                    IF ~flags.vec_enabled \/ ~T.vec \/ ~T.homo
                    THEN select_default_gemv_impl(T, n1, n2) ELSE forced
               [] OTHER -> forced
    ELSE select_default_gemv_impl(T, n1, n2)

\* select_default_transpose_impl<A, C>: dma and floating are all_dma<A, C>
\* and all_floating<A, C>
select_default_transpose_impl(dma, floating, dma_c, floating_c) ==
    IF flags.cublas_enabled /\ dma /\ floating THEN "CUBLAS"
    ELSE IF flags.mkl_enabled /\ dma_c /\ floating_c THEN "MKL"
    ELSE "STD"

select_default_in_square_transpose_impl(dma, floating, dma_c, floating_c) ==
    IF flags.cublas_enabled /\ dma /\ floating THEN "CUBLAS"
    ELSE IF flags.mkl_enabled /\ dma_c /\ floating_c THEN "MKL"
    ELSE "STD"

select_transpose_impl(dma, floating, def) ==
    IF ctx.transpose.forced
    THEN LET forced == ctx.transpose.impl
         IN  CASE forced = "CUBLAS" ->
                    IF ~flags.cublas_enabled \/ ~dma \/ ~floating THEN def ELSE forced
               [] forced = "MKL" ->
                    IF ~flags.mkl_enabled \/ ~dma \/ ~floating THEN def ELSE forced
               [] OTHER -> forced
    ELSE def

\* the branch a dispatcher without an 'invalid selection' branch takes
\* (sum_impl::apply, dot_impl::apply): the last one is the standard kernel
kernel_or_standard(impl) ==
    CASE impl = "VEC" -> "vec"
      [] impl = "BLAS" -> "blas"
      [] impl = "CUBLAS" -> "cublas"
      [] OTHER -> "standard"

\* gemv_expr::apply_raw
gemv_kernel(impl) ==
    CASE impl = "STD" -> "standard"
      [] impl = "BLAS" -> "blas"
      [] impl = "VEC" -> "vec"
      [] impl = "CUBLAS" -> "cublas"
      [] OTHER -> "unreachable"

\* transpose::apply, inplace_square_transpose::apply and
\* inplace_rectangular_transpose::apply
transpose_kernel(impl) ==
    CASE impl = "MKL" -> "blas"
      [] impl = "CUBLAS" -> "cublas"
      [] impl = "STD" -> "standard"
      [] OTHER -> "unreachable"

\* how transpose::apply(a, c) is entered: a and c in distinct memory
\* ("out"), or at the same memory_start with c square or not
TransposeModes == {"out", "in_square", "in_rect"}

NoDispatch == [family |-> "none", traits |-> <<>>, gpu |-> FALSE, n1 |-> 0, n2 |-> 0,
               mode |-> "none", forced |-> Unforced, impl |-> "none", kernel |-> "none"]

InitDispatchVars ==
    /\ flags \in Flags
    /\ ctx = [fam \in Families |-> Unforced]
    /\ sel = NoSelection
    /\ last = NoSelection
    /\ call = NoDispatch

\* The model follows the scopes entered and left before one operation, and
\* the dispatch of that operation.
ForceAny ==
    /\ call = NoDispatch
    /\ force(Families)
    /\ UNCHANGED <<flags, sel, last, call>>
    /\ UNCHANGED <<opt_vars, build_vars, not_disp>>

ReleaseAny ==
    /\ call = NoDispatch
    /\ release(Families)
    /\ UNCHANGED <<flags, sel, last, call>>
    /\ UNCHANGED <<opt_vars, build_vars, not_disp>>

\* sum_impl::apply
DispatchSum ==
    /\ call = NoDispatch
    /\ \E E \in SumTraits, gpu \in BOOLEAN :
          LET impl == select_sum_impl(E, gpu)
          IN  call' = [NoDispatch EXCEPT !.family = "sum", !.traits = E, !.gpu = gpu,
                          !.forced = ctx.sum, !.impl = impl,
                          !.kernel = kernel_or_standard(impl)]
    /\ UNCHANGED <<flags, ctx, sel, last>>
    /\ UNCHANGED <<opt_vars, build_vars, not_disp>>

\* dot_impl::apply
DispatchDot ==
    /\ call = NoDispatch
    /\ \E AB \in DotTraits :
          LET impl == select_dot_impl(AB)
          IN  call' = [NoDispatch EXCEPT !.family = "dot", !.traits = AB,
                          !.forced = ctx.dot, !.impl = impl,
                          !.kernel = kernel_or_standard(impl)]
    /\ UNCHANGED <<flags, ctx, sel, last>>
    /\ UNCHANGED <<opt_vars, build_vars, not_disp>>

\* gemv_expr::apply_raw: select_gemv_impl<C>(dim<0>(a), dim<1>(a))
DispatchGemv ==
    /\ call = NoDispatch
    /\ \E T \in GemvTraits, n1 \in GemvDims, n2 \in GemvDims :
          LET impl == select_gemv_impl(T, n1, n2)
          IN  call' = [NoDispatch EXCEPT !.family = "gemm", !.traits = T,
                          !.n1 = n1, !.n2 = n2,
                          !.forced = ctx.gemm, !.impl = impl,
                          !.kernel = gemv_kernel(impl)]
    /\ UNCHANGED <<flags, ctx, sel, last>>
    /\ UNCHANGED <<opt_vars, build_vars, not_disp>>

\* transpose::apply(a, c).  In place the selectors are instantiated with
\* <C, C>, out of place with <A, C>; in place the source is the destination.
DispatchTranspose ==
    /\ call = NoDispatch
    /\ \E T \in TransposeTraits, mode \in TransposeModes :
          /\ mode # "out" => (T.dma_a = T.dma_c /\ T.floating_a = T.floating_c)
          /\ LET dma      == IF mode = "out" THEN T.dma_a /\ T.dma_c ELSE T.dma_c
                 floating == IF mode = "out" THEN T.floating_a /\ T.floating_c
                             ELSE T.floating_c
                 def  == IF mode = "in_square"
                         THEN select_default_in_square_transpose_impl(dma, floating,
                                                                      T.dma_c, T.floating_c)
                         ELSE select_default_transpose_impl(dma, floating,
                                                            T.dma_c, T.floating_c)
                 impl == select_transpose_impl(dma, floating, def)
             IN  call' = [NoDispatch EXCEPT !.family = "transpose", !.traits = T,
                             !.mode = mode,
                             !.forced = ctx.transpose, !.impl = impl,
                             !.kernel = transpose_kernel(impl)]
    /\ UNCHANGED <<flags, ctx, sel, last>>
    /\ UNCHANGED <<opt_vars, build_vars, not_disp>>

-----------------------------------------------------------------------------
(* Serial or parallel execution of sum, asum and the 1D convolution         *)
(* (impl/sum.hpp, impl/conv.hpp) in a build with ETL_PARALLEL_SUPPORT.      *)
(* engine_dispatch_1d_acc and dispatch_1d are not part of the sources at    *)
(* hand: they are modelled after the parallel dispatch contract of the      *)
(* specification.                                                           *)

\* The value type of the reduction: addition rounds to the nearest value of
\* a bounded range, so that it is commutative and not associative, as the
\* addition of floating-point numbers.
Values == -2..2
fadd(a, b) == IF a + b > 2 THEN 2 ELSE IF a + b < -2 THEN -2 ELSE a + b
fabs(a) == IF a < 0 THEN -a ELSE a

\* impl::standard::sum(e, first, last) and impl::vec::sum(e, first, last):
\* the sum of the elements first .. last - 1 of e, from the left
RECURSIVE range_sum(_, _, _)
range_sum(e, first, end) ==
    IF end <= first THEN 0
    ELSE fadd(range_sum(e, first, end - 1), e[end])

\* impl::standard::asum(e, first, last) and impl::vec::asum(e, first, last)
RECURSIVE range_asum(_, _, _)
range_asum(e, first, end) ==
    IF end <= first THEN 0
    ELSE fadd(range_asum(e, first, end - 1), fabs(e[end]))

\* conv.hpp select_parallel: the condition on the build and on the context
parallel_enabled == (p_cfg.parallel /\ ~p_cfg.serial) \/ p_cfg.forced_parallel

select_parallel(size_conv, size_kernel) ==
    IF parallel_enabled
    THEN size_conv >= p_cfg.conv_threshold /\ size_kernel >= p_cfg.kernel_threshold
    ELSE FALSE

\* the decision of engine_dispatch_1d_acc for a range of n elements
engine_select_parallel(n, threshold) == parallel_enabled /\ n > threshold

\* the contiguous sub-range of [0, n) of worker t of Threads: the last
\* worker takes the remainder
sub_first(n, t) == (t - 1) * (n \div Threads)
sub_last(n, t) == IF t = Threads THEN n ELSE t * (n \div Threads)

\* a faulty combination: the partial sums are accumulated in the order the
\* workers complete
combine_in_completion_order(part, order) ==
    LET RECURSIVE acc_upto(_)
        acc_upto(i) == IF i = 0 THEN 0 ELSE fadd(acc_upto(i - 1), part[order[i]].value)
    IN  acc_upto(Threads)

\* the calling thread calls acc_functor on the partial results in the order
\* of the worker index
combine(part, order) ==
    LET RECURSIVE acc_upto(_)
        acc_upto(i) == IF i = 0 THEN 0 ELSE fadd(acc_upto(i - 1), part[i].value)
    IN  acc_upto(Threads)

Pending == [done |-> FALSE, value |-> 0]
NoRun == [op |-> "none", impl |-> "none", mode |-> "none", pc |-> "idle",
          part |-> [t \in 1..Threads |-> Pending], order |-> <<>>, acc |-> 0]

\* the elements of the operand of sum and asum
Elems == {-2, 1, 2}
RECURSIVE SeqsOfLen(_)
SeqsOfLen(n) == IF n = 0 THEN {<<>>}
                ELSE {Append(s, x) : s \in SeqsOfLen(n - 1), x \in Elems}

ParConfigs == [parallel : BOOLEAN, serial : BOOLEAN, forced_parallel : BOOLEAN,
               sum_threshold : 1..MaxThreshold, dflt_threshold : 1..MaxThreshold,
               conv_threshold : 1..MaxThreshold, kernel_threshold : 1..MaxThreshold]

\* any build and context; operands of every size, of equal elements
InitParVars ==
    /\ p_cfg \in ParConfigs
    /\ \E n \in 1..MaxLen, nk \in 1..MaxLen :
          p_in = [e |-> [i \in 1..n |-> 1], nk |-> nk]
    /\ par = NoRun

\* a build and context that dispatch every range of more than one element
\* in parallel; operands of every content
InitReduceVars ==
    /\ p_cfg \in {c \in ParConfigs :
                     /\ c.sum_threshold = 1 /\ c.dflt_threshold = 1
                     /\ c.conv_threshold = 1 /\ c.kernel_threshold = 1
                     /\ ~c.serial /\ ~c.forced_parallel}
    /\ \E n \in 1..MaxLen : \E e \in SeqsOfLen(n) : p_in = [e |-> e, nk |-> 1]
    /\ par = NoRun

\* engine_dispatch_1d_acc(functor, acc_functor, 0, n, threshold) with the
\* kernel functor(first, last) = kernel_sum(e, first, last): the serial
\* execution is acc_functor(functor(0, n)) in the calling thread
dispatch_1d_acc(op, impl, threshold) ==
    LET n == Len(p_in.e)
    IN  IF engine_select_parallel(n, threshold)
        THEN par' = [NoRun EXCEPT !.op = op, !.impl = impl, !.mode = "parallel",
                                  !.pc = "running"]
        ELSE par' = [NoRun EXCEPT !.op = op, !.impl = impl, !.mode = "serial",
                                  !.pc = "done",
                                  !.acc = fadd(0, IF op = "sum" THEN range_sum(p_in.e, 0, n)
                                                  ELSE range_asum(p_in.e, 0, n))]

\* sum_impl::apply: the BLAS and CUBLAS kernels are called on the whole
\* operand by the calling thread
CallSum ==
    /\ par.pc = "idle"
    /\ \E impl \in Impls :
          IF impl \in {"BLAS", "CUBLAS"}
          THEN par' = [NoRun EXCEPT !.op = "sum", !.impl = impl, !.mode = "serial",
                                    !.pc = "done",
                                    !.acc = range_sum(p_in.e, 0, Len(p_in.e))]
          ELSE dispatch_1d_acc("sum", impl, p_cfg.sum_threshold)
    /\ UNCHANGED <<p_cfg, p_in>>
    /\ UNCHANGED <<opt_vars, build_vars, sel_vars, not_par>>

\* asum_impl::apply: sum_parallel_threshold is an argument of the kernel,
\* and engine_dispatch_1d_acc is called without a threshold
CallAsum ==
    /\ par.pc = "idle"
    /\ \E impl \in Impls :
          IF impl \in {"BLAS", "CUBLAS"}
          THEN par' = [NoRun EXCEPT !.op = "asum", !.impl = impl, !.mode = "serial",
                                    !.pc = "done",
                                    !.acc = range_asum(p_in.e, 0, Len(p_in.e))]
          ELSE dispatch_1d_acc("asum", impl, p_cfg.dflt_threshold)
    /\ UNCHANGED <<p_cfg, p_in>>
    /\ UNCHANGED <<opt_vars, build_vars, sel_vars, not_par>>

\* conv1_full_impl::selected_apply: dispatch_1d(select_parallel(input,
\* kernel, conv), functor, 0, size(conv)); the values are not modelled
CallConv ==
    /\ par.pc = "idle"
    /\ par' = [NoRun EXCEPT !.op = "conv1", !.impl = "STD",
                  !.mode = IF select_parallel(Len(p_in.e), p_in.nk)
                           THEN "parallel" ELSE "serial",
                  !.pc = "done"]
    /\ UNCHANGED <<p_cfg, p_in>>
    /\ UNCHANGED <<opt_vars, build_vars, sel_vars, not_par>>

\* a worker completes the kernel on its sub-range
WorkerDone ==
    /\ par.pc = "running"
    /\ \E t \in 1..Threads :
          /\ ~par.part[t].done
          /\ LET n == Len(p_in.e)
                 v == IF par.op = "sum"
                      THEN range_sum(p_in.e, sub_first(n, t), sub_last(n, t))
                      ELSE range_asum(p_in.e, sub_first(n, t), sub_last(n, t))
             IN  par' = [par EXCEPT !.part[t] = [done |-> TRUE, value |-> v],
                                    !.order = Append(par.order, t)]
    /\ UNCHANGED <<p_cfg, p_in>>
    /\ UNCHANGED <<opt_vars, build_vars, sel_vars, not_par>>

\* all workers have completed: the calling thread accumulates the partial
\* results
Combine ==
    /\ par.pc = "running"
    /\ \A t \in 1..Threads : par.part[t].done
    /\ par' = [par EXCEPT !.pc = "done", !.acc = combine(par.part, par.order)]
    /\ UNCHANGED <<p_cfg, p_in>>
    /\ UNCHANGED <<opt_vars, build_vars, sel_vars, not_par>>

-----------------------------------------------------------------------------
(* Kernels and the memory coherence of their operands (impl/vec/gemm.hpp,   *)
(* impl/cudnn/sigmoid.hpp, impl/cublas/transpose.hpp).  The handle of a     *)
(* container is not part of the sources at hand: its operations are         *)
(* modelled after the Memory Coherence Handle of the specification.  A      *)
(* kernel is the sequence of its calls on the operands a, b (sources), c    *)
(* (destination) and t (a temporary it makes).                              *)

Handles == [cpu : BOOLEAN, gpu : BOOLEAN]
Fresh == [cpu |-> FALSE, gpu |-> FALSE]

\* the operations of the handle x of the state hs: validation, invalidation,
\* ensure_*_up_to_date (copy from the other side if the side is not valid,
\* then mark it valid); an allocation does not change the validity
handle_op(hs, op, x) ==
    CASE op = "validate_cpu" -> [hs EXCEPT ![x].cpu = TRUE]
      [] op = "validate_gpu" -> [hs EXCEPT ![x].gpu = TRUE]
      [] op = "invalidate_cpu" -> [hs EXCEPT ![x].cpu = FALSE]
      [] op = "invalidate_gpu" -> [hs EXCEPT ![x].gpu = FALSE]
      [] op = "ensure_cpu_up_to_date" -> [hs EXCEPT ![x].cpu = TRUE]
      [] op = "ensure_gpu_up_to_date" -> [hs EXCEPT ![x].gpu = TRUE]
      [] op = "gpu_allocate_copy_if_necessary" -> [hs EXCEPT ![x].gpu = TRUE]
      \* force_temporary_opp: a new container, evaluated on the CPU
      [] op = "force_temporary_opp" -> [hs EXCEPT !["t"] = [cpu |-> TRUE, gpu |-> FALSE]]
      [] OTHER -> hs

\* the side an operation makes sure is up to date, if any
ensured_side(op) ==
    CASE op = "ensure_cpu_up_to_date" -> "cpu"
      [] op = "ensure_gpu_up_to_date" -> "gpu"
      [] op = "gpu_allocate_copy_if_necessary" -> "gpu"
      [] OTHER -> "none"

\* vec::gemm for row-major a, b, c (and the other overloads of the same
\* shape): gemm_rr_to_r reads a.memory_start(), b.memory_start() and writes
\* c.memory_start()
vec_gemm ==
    << <<"ensure_cpu_up_to_date", "a">>, <<"ensure_cpu_up_to_date", "b">>,
       <<"read_cpu", "a">>, <<"read_cpu", "b">>, <<"write_cpu", "c">>,
       <<"invalidate_gpu", "c">> >>

\* vec::gemm for column-major a, b and row-major c, of an a of M x K and a
\* b of K x N elements
vec_gemm_cc_to_r(M, K, N) ==
    IF M * K < K * N
    THEN << <<"force_temporary_opp", "a">>,
            <<"ensure_cpu_up_to_date", "t">>, <<"ensure_cpu_up_to_date", "b">>,
            <<"read_cpu", "a">>, <<"read_cpu", "t">>, <<"write_cpu", "c">>,
            <<"invalidate_gpu", "c">> >>
    ELSE << <<"force_temporary_opp", "b">>,
            <<"ensure_cpu_up_to_date", "t">>, <<"ensure_cpu_up_to_date", "a">>,
            <<"read_cpu", "a">>, <<"read_cpu", "t">>, <<"write_cpu", "c">>,
            <<"invalidate_gpu", "c">> >>

\* cudnn::activation(x, y, mode), with x = a and y = c
cudnn_activation ==
    << <<"ensure_gpu_up_to_date", "a">>, <<"ensure_gpu_allocated", "c">>,
       <<"read_gpu", "a">>, <<"write_gpu", "c">>,
       <<"validate_gpu", "c">>, <<"invalidate_cpu", "c">> >>

\* cudnn::backward_activation(y, dy, dx, mode), with y = a, dy = b, dx = c
cudnn_backward_activation ==
    << <<"ensure_gpu_up_to_date", "a">>, <<"ensure_gpu_up_to_date", "b">>,
       <<"ensure_gpu_allocated", "c">>,
       <<"read_gpu", "a">>, <<"read_gpu", "b">>, <<"read_gpu", "a">>, <<"write_gpu", "c">>,
       <<"validate_gpu", "c">>, <<"invalidate_cpu", "c">> >>

\* cublas::transpose(a, c)
cublas_transpose ==
    << <<"gpu_allocate_copy_if_necessary", "a">>, <<"gpu_allocate_if_necessary", "c">>,
       <<"read_gpu", "a">>, <<"write_gpu", "c">> >>

NoKernel == [kernel |-> "none", steps |-> <<>>, pc |-> 0, ensured |-> {},
             unensured |-> {}, wrote |-> "none"]

\* containers in any coherence state
InitKernelVars ==
    /\ coh \in {hs \in [{"a", "b", "c", "t"} -> Handles] : hs["t"] = Fresh}
    /\ kern = NoKernel

\* a kernel is called
KernelCall ==
    /\ kern.pc = 0
    /\ \E M \in MatDims, N \in MatDims :
          \E call_ \in { <<"vec::gemm", vec_gemm>>,
                         <<"vec::gemm (column-major a, b)", vec_gemm_cc_to_r(M, 1, N)>>,
                         <<"cudnn::activation", cudnn_activation>>,
                         <<"cudnn::backward_activation", cudnn_backward_activation>>,
                         <<"cublas::transpose", cublas_transpose>> } :
             kern' = [NoKernel EXCEPT !.kernel = call_[1], !.steps = call_[2], !.pc = 1]
    /\ UNCHANGED coh
    /\ UNCHANGED <<opt_vars, build_vars, sel_vars, not_coh>>

\* the next call of the kernel: an operation of a handle, or an access to
\* the memory of an operand on one side
KernelStep ==
    /\ kern.pc >= 1 /\ kern.pc <= Len(kern.steps)
    /\ LET op == kern.steps[kern.pc][1]
           x  == kern.steps[kern.pc][2]
           side == IF op \in {"read_cpu", "write_cpu"} THEN "cpu" ELSE "gpu"
       IN  /\ coh' = handle_op(coh, op, x)
           /\ kern' = [kern EXCEPT
                 !.pc = kern.pc + 1,
                 !.ensured = IF ensured_side(op) # "none"
                             THEN kern.ensured \cup {<<x, ensured_side(op)>>} ELSE kern.ensured,
                 !.unensured = IF op \in {"read_cpu", "read_gpu"} /\ <<x, side>> \notin kern.ensured
                               THEN kern.unensured \cup {<<x, side>>} ELSE kern.unensured,
                 !.wrote = IF op \in {"write_cpu", "write_gpu"} THEN side ELSE kern.wrote]
    /\ UNCHANGED <<opt_vars, build_vars, sel_vars, not_coh>>

-----------------------------------------------------------------------------
(* double arithmetic: <<class, sign, numerator, denominator>> *)

RECURSIVE GCD(_, _)
GCD(m, n) == IF n = 0 THEN m ELSE GCD(n, m % n)

FNaN == <<"nan", 1, 0, 1>>
FInf(s) == <<"inf", s, 0, 1>>
FZero(s) == <<"fin", s, 0, 1>>
FNum(s, n, d) == IF n = 0 THEN FZero(s) ELSE <<"fin", s, n \div GCD(n, d), d \div GCD(n, d)>>
FInt(k) == IF k < 0 THEN FNum(-1, -k, 1) ELSE FNum(1, k, 1)

IsNaN(x) == x[1] = "nan"
IsInf(x) == x[1] = "inf"
IsZero(x) == x[1] = "fin" /\ x[3] = 0

\* operator== of double: NaN equals nothing, -0.0 == +0.0
FEq(x, y) ==
    /\ ~IsNaN(x) /\ ~IsNaN(y)
    /\ \/ IsZero(x) /\ IsZero(y)
       \/ x = y

FNeg(x) == IF IsNaN(x) THEN x ELSE <<x[1], -x[2], x[3], x[4]>>

FMul(x, y) ==
    IF IsNaN(x) \/ IsNaN(y) THEN FNaN
    ELSE IF (IsInf(x) /\ IsZero(y)) \/ (IsZero(x) /\ IsInf(y)) THEN FNaN
    ELSE IF IsInf(x) \/ IsInf(y) THEN FInf(x[2] * y[2])
    ELSE FNum(x[2] * y[2], x[3] * y[3], x[4] * y[4])

FAdd(x, y) ==
    IF IsNaN(x) \/ IsNaN(y) THEN FNaN
    ELSE IF IsInf(x) /\ IsInf(y) THEN (IF x[2] = y[2] THEN x ELSE FNaN)
    ELSE IF IsInf(x) THEN x
    ELSE IF IsInf(y) THEN y
    ELSE IF IsZero(x) /\ IsZero(y) THEN FZero(IF x[2] = -1 /\ y[2] = -1 THEN -1 ELSE 1)
    ELSE LET n == x[2] * x[3] * y[4] + y[2] * y[3] * x[4]
             d == x[4] * y[4]
         IN  IF n < 0 THEN FNum(-1, -n, d) ELSE FNum(1, n, d)

FSub(x, y) == FAdd(x, FNeg(y))

FDiv(x, y) ==
    IF IsNaN(x) \/ IsNaN(y) THEN FNaN
    ELSE IF (IsInf(x) /\ IsInf(y)) \/ (IsZero(x) /\ IsZero(y)) THEN FNaN
    ELSE IF IsInf(x) \/ IsZero(y) THEN FInf(x[2] * y[2])
    ELSE IF IsInf(y) THEN FZero(x[2] * y[2])
    ELSE FNum(x[2] * y[2], x[3] * y[4], x[4] * y[3])

-----------------------------------------------------------------------------
(* Expression nodes *)

Leaf == <<"leaf">>
Scalar(v) == <<"scalar", v>>
Unary(op, e) == <<"un", op, e>>
Binary(op, l, r) == <<"bin", op, l, r>>

Kind(e) == e[1]
IsScalarNode(e) == Kind(e) = "scalar"

BinaryOps == {"mul", "plus", "minus", "div"}
UnaryOps == {"plus", "minus"}

\* BinaryOp::apply and UnaryOp::apply
apply_binary(op, x, y) ==
    CASE op = "mul" -> FMul(x, y)
      [] op = "plus" -> FAdd(x, y)
      [] op = "minus" -> FSub(x, y)
      [] op = "div" -> FDiv(x, y)

apply_unary(op, x) ==
    CASE op = "plus" -> x
      [] op = "minus" -> FNeg(x)

-----------------------------------------------------------------------------
(* Function builders (builder/function_expression_builder.hpp): what a      *)
(* call computes, and what is left to the evaluation of the node.  Values   *)
(* are terms: <<"v", n>> is the number n and <<f, t>>, <<f, t, u>> the      *)
(* result of the function or operator f; sum and max are the reductions,    *)
(* which return a value.                                                    *)

\* sum(exp(...)) of a sequence of values: the value returned by sum_impl::apply
sum_of(vs) == <<"sum", vs>>

\* max(e) of the content xs of a container
max_of(xs) == <<"v", CHOOSE m \in {xs[i] : i \in 1..Len(xs)} :
                        \A i \in 1..Len(xs) : xs[i] <= m>>

\* element i of the node e when the leaf holds xs
RECURSIVE elem_of(_, _, _)
elem_of(e, xs, i) ==
    CASE Kind(e) = "leaf" -> <<"v", xs[i]>>
      [] Kind(e) = "scalar" -> e[2]
      [] Kind(e) = "un" -> <<e[2], elem_of(e[3], xs, i)>>
      [] Kind(e) = "bin" -> <<e[2], elem_of(e[3], xs, i), elem_of(e[4], xs, i)>>

\* all the elements of the node e when the leaf holds xs
elems_of(e, xs) == [i \in 1..Len(xs) |-> elem_of(e, xs, i)]

FunctionBuilders == {"exp", "softplus", "operator+", "softmax", "stable_softmax"}

\* the node returned by the builder b called on a container holding xs, and
\* the reductions the call computes
function_body(b, xs) ==
    CASE b = "exp" -> [node |-> Unary("exp", Leaf), reductions |-> <<>>]
      [] b = "softplus" ->
            [node |-> Unary("log", Binary("plus", Scalar(<<"v", 1>>), Unary("exp", Leaf))),
             reductions |-> <<>>]
      [] b = "operator+" -> [node |-> Binary("plus", Leaf, Leaf), reductions |-> <<>>]
      [] b = "softmax" ->
            [node |-> Binary("div", Unary("exp", Leaf),
                             Scalar(sum_of(elems_of(Unary("exp", Leaf), xs)))),
             reductions |-> <<"sum">>]
      [] b = "stable_softmax" ->
            LET m == max_of(xs)
                shifted == Unary("exp", Binary("minus", Leaf, Scalar(m)))
            IN  [node |-> Binary("div", shifted, Scalar(sum_of(elems_of(shifted, xs)))),
                 reductions |-> <<"max", "sum">>]

NoFunction == [builder |-> "none", node |-> Leaf, reductions |-> <<>>, at |-> <<>>,
               out |-> <<>>]

\* the content of the container the builders are called on
FnContents == UNION {[1..n -> 0..1] : n \in 1..MaxFnLen}

InitFnVars ==
    /\ fn_x \in FnContents
    /\ fn = NoFunction

\* a builder is called on the container
FunctionCall ==
    /\ fn.builder = "none"
    /\ \E b \in FunctionBuilders :
          LET r == function_body(b, fn_x)
          IN  fn' = [NoFunction EXCEPT !.builder = b, !.node = r.node,
                                       !.reductions = r.reductions, !.at = fn_x]
    /\ UNCHANGED fn_x
    /\ UNCHANGED <<opt_vars, build_vars, sel_vars, not_fn>>

\* the container is written between the call and the evaluation
FunctionOperandWrite ==
    /\ fn.builder # "none" /\ fn.out = <<>>
    /\ fn.at = fn_x
    /\ \E xs \in FnContents :
          /\ Len(xs) = Len(fn_x) /\ xs # fn_x
          /\ fn_x' = xs
    /\ UNCHANGED fn
    /\ UNCHANGED <<opt_vars, build_vars, sel_vars, not_fn>>

\* the node is evaluated into a destination
FunctionEvaluate ==
    /\ fn.builder # "none" /\ fn.out = <<>>
    /\ fn' = [fn EXCEPT !.out = elems_of(fn.node, fn_x)]
    /\ UNCHANGED fn_x
    /\ UNCHANGED <<opt_vars, build_vars, sel_vars, not_fn>>

-----------------------------------------------------------------------------
(* Transposition of an operand a into a destination c (impl/transpose.hpp). *)
(* The memory is a sequence of cells; a starts at cell 0 and c at cell off, *)
(* both hold M * N elements in row-major order.  The standard kernels run   *)
(* one element per step.                                                    *)

\* cells of the memory: the operand and a destination that does not overlap it
TpCells == 0..(2 * MaxTrDim * MaxTrDim - 1)

\* is_square(c)
is_square(M, N) == M = N

\* the path transpose::apply takes: in place when both start at the same
\* cell, the kernel of two containers otherwise
transpose_path(off, M, N) ==
    IF off = 0
    THEN IF is_square(M, N) THEN "inplace_square_transpose" ELSE "inplace_rectangular_transpose"
    ELSE "transpose"

\* the pairs (i, j), i < j, of a square matrix in the order of the two loops
square_pairs(n) ==
    SelectSeq([k \in 1..(n * n) |-> <<(k - 1) \div n, (k - 1) % n>>],
              LAMBDA p : p[1] < p[2])

\* the steps a path makes on an M x N operand
transpose_steps(path, M, N) ==
    CASE path = "inplace_square_transpose" -> Len(square_pairs(N))
      [] path = "inplace_rectangular_transpose" -> 1 + M * N
      [] path = "transpose" -> M * N

NoTranspose == [pc |-> "idle", M |-> 1, N |-> 1, off |-> 0, path |-> "none", pos |-> 0,
                written |-> {}, stale |-> FALSE, copy |-> <<>>]

InitTpVars ==
    /\ tp = NoTranspose
    /\ tp_mem = [c \in TpCells |-> c]

\* transpose::apply(a, c) is called
TransposeCall ==
    /\ tp.pc = "idle"
    /\ \E M \in 1..MaxTrDim, N \in 1..MaxTrDim :
          \E off \in 0..(M * N) :
             tp' = [NoTranspose EXCEPT !.pc = "run", !.M = M, !.N = N, !.off = off,
                                       !.path = transpose_path(off, M, N)]
    /\ UNCHANGED tp_mem
    /\ UNCHANGED <<opt_vars, build_vars, sel_vars, not_tp>>

\* one step of standard::transpose: c[j * M + i] = a[i * N + j]
StepTranspose ==
    LET i == tp.pos \div tp.N
        j == tp.pos % tp.N
        from == i * tp.N + j
        to == tp.off + j * tp.M + i
    IN  /\ tp' = [tp EXCEPT !.pos = @ + 1, !.written = @ \cup {to},
                            !.stale = @ \/ from \in tp.written]
        /\ tp_mem' = [tp_mem EXCEPT ![to] = tp_mem[from]]

\* one step of standard::inplace_square_transpose: swap(c(i, j), c(j, i))
StepInplaceSquare ==
    LET p == square_pairs(tp.N)[tp.pos + 1]
        x == p[1] * tp.N + p[2]
        y == p[2] * tp.N + p[1]
    IN  /\ tp' = [tp EXCEPT !.pos = @ + 1, !.written = @ \cup {x, y},
                            !.stale = @ \/ x \in tp.written \/ y \in tp.written]
        /\ tp_mem' = [tp_mem EXCEPT ![x] = tp_mem[y], ![y] = tp_mem[x]]

\* one step of standard::inplace_rectangular_transpose: the copy of c is
\* made first, then c[j * M + i] = copy[i * N + j]
StepInplaceRectangular ==
    IF tp.pos = 0
    THEN /\ tp' = [tp EXCEPT !.pos = 1, !.copy = [e \in 1..(tp.M * tp.N) |-> tp_mem[e - 1]]]
         /\ UNCHANGED tp_mem
    ELSE LET i == (tp.pos - 1) \div tp.N
             j == (tp.pos - 1) % tp.N
             to == j * tp.M + i
         IN  /\ tp' = [tp EXCEPT !.pos = @ + 1, !.written = @ \cup {to}]
             /\ tp_mem' = [tp_mem EXCEPT ![to] = tp.copy[i * tp.N + j + 1]]

\* the kernel of the path makes its next step
TransposeStep ==
    /\ tp.pc = "run"
    /\ tp.pos < transpose_steps(tp.path, tp.M, tp.N)
    /\ CASE tp.path = "transpose" -> StepTranspose
         [] tp.path = "inplace_square_transpose" -> StepInplaceSquare
         [] tp.path = "inplace_rectangular_transpose" -> StepInplaceRectangular
    /\ UNCHANGED <<opt_vars, build_vars, sel_vars, not_tp>>

\* the kernel returns
TransposeReturn ==
    /\ tp.pc = "run"
    /\ tp.pos = transpose_steps(tp.path, tp.M, tp.N)
    /\ tp' = [tp EXCEPT !.pc = "done"]
    /\ UNCHANGED tp_mem
    /\ UNCHANGED <<opt_vars, build_vars, sel_vars, not_tp>>

-----------------------------------------------------------------------------
(* Element access with indices: sparse_matrix_impl::get, the index          *)
(* computation of dyn_matrix_view and operator[] of memory_slice_view.      *)

\* operator[] of the container under a view: etl_assert(i < size)
sub_access(n, sub_size) ==
    IF n < sub_size THEN [outcome |-> "access", cell |-> n]
    ELSE [outcome |-> "assert", cell |-> 0]

\* sparse_matrix_impl::get(i, j) on a matrix of R x C
sparse_get_access(i, j, R, C) ==
    IF ~(i < R) \/ ~(j < C) THEN [outcome |-> "assert", cell |-> 0]
    ELSE [outcome |-> "access", cell |-> i * C + j]

\* dyn_matrix_view::index(f1, f2) of a row-major view of R x C, then sub[index]
dyn_matrix_view_access(f1, f2, R, C, sub_size) ==
    IF ~(f1 < R) \/ ~(f2 < C) THEN [outcome |-> "assert", cell |-> 0]
    ELSE LET subsize1 == sub_size \div R
             subsize2 == subsize1 \div C
         IN  sub_access(subsize1 * f1 + subsize2 * f2, sub_size)

\* memory_slice_view::operator[](j): sub[first + j]
memory_slice_view_access(j, first, sub_size) == sub_access(first + j, sub_size)

NoAccess == [obj |-> "none", R |-> 1, C |-> 1, first |-> 0, end |-> 1, sub_size |-> 1,
             idx |-> <<0, 0>>, outcome |-> "none", cell |-> 0]

\* the indices tried: each extent and one past it
AccIndices == 0..(MaxAccDim + 1)

\* get(i, j) is called on a sparse matrix
SparseGet ==
    /\ acc = NoAccess
    /\ \E R \in 1..MaxAccDim, C \in 1..MaxAccDim, i \in AccIndices, j \in AccIndices :
          LET r == sparse_get_access(i, j, R, C)
          IN  acc' = [NoAccess EXCEPT !.obj = "sparse_matrix", !.R = R, !.C = C,
                                      !.sub_size = R * C, !.idx = <<i, j>>,
                                      !.outcome = r.outcome, !.cell = r.cell]
    /\ UNCHANGED but_acc

\* an element of a dyn_matrix_view over a container of R * C elements is accessed
ViewAccess ==
    /\ acc = NoAccess
    /\ \E R \in 1..MaxAccDim, C \in 1..MaxAccDim, i \in AccIndices, j \in AccIndices :
          LET r == dyn_matrix_view_access(i, j, R, C, R * C)
          IN  acc' = [NoAccess EXCEPT !.obj = "dyn_matrix_view", !.R = R, !.C = C,
                                      !.sub_size = R * C, !.idx = <<i, j>>,
                                      !.outcome = r.outcome, !.cell = r.cell]
    /\ UNCHANGED but_acc

\* an element of a memory_slice_view [first, end) of a vector is accessed
SliceAccess ==
    /\ acc = NoAccess
    /\ \E n \in 1..(MaxAccDim + 1) :
          \E first \in 0..(n - 1) :
             \E end \in (first + 1)..n, j \in AccIndices :
                LET r == memory_slice_view_access(j, first, n)
                IN  acc' = [NoAccess EXCEPT !.obj = "memory_slice_view", !.first = first,
                                            !.end = end, !.sub_size = n, !.idx = <<j, 0>>,
                                            !.outcome = r.outcome, !.cell = r.cell]
    /\ UNCHANGED but_acc

AccAtRest == acc = NoAccess

NextAccess == SparseGet \/ ViewAccess \/ SliceAccess

-----------------------------------------------------------------------------
(* The calls of the cuDNN backend (impl/cudnn/cudnn.hpp) and the steps of   *)
(* cudnn::activation (impl/cudnn/sigmoid.hpp).                              *)

CudnnStatus == {"CUDNN_STATUS_SUCCESS", "CUDNN_STATUS_EXECUTION_FAILED"}

\* the macro cudnn_check(call): an error status is written to std::cerr, and
\* the statement after the macro is executed
cudnn_check(status) ==
    [logged |-> status # "CUDNN_STATUS_SUCCESS", continues |-> TRUE]

\* the statements of cudnn::activation(x, y, mode)
activation_steps ==
    << <<"check", "cudnnCreateActivationDescriptor">>,
       <<"check", "cudnnSetActivationDescriptor">>,
       <<"handle", "ensure_gpu_up_to_date", "x">>,
       <<"handle", "ensure_gpu_allocated", "y">>,
       <<"check", "cudnnActivationForward">>,
       <<"handle", "validate_gpu", "y">>,
       <<"handle", "invalidate_cpu", "y">>,
       <<"check", "cudnnDestroyActivationDescriptor">> >>

NoCudnn == [pc |-> "idle", pos |-> 1, hs |-> [o \in {"x", "y"} |-> Fresh], failed |-> 0,
            after |-> 0, marked |-> FALSE, logged |-> 0]

\* cudnn::activation(x, y, mode) is called: x holds a value on one side at least
ActivationCall ==
    /\ cud.pc = "idle"
    /\ \E hx \in Handles, hy \in Handles :
          /\ hx.cpu \/ hx.gpu
          /\ cud' = [NoCudnn EXCEPT !.pc = "run", !.hs = [x |-> hx, y |-> hy]]
    /\ UNCHANGED but_cud

\* the next statement of the kernel is executed
ActivationStep ==
    /\ cud.pc = "run"
    /\ cud.pos <= Len(activation_steps)
    /\ LET st == activation_steps[cud.pos]
           ran == IF cud.failed # 0 THEN 1 ELSE 0
       IN  IF st[1] = "check"
           THEN \E status \in CudnnStatus :
                   LET r == cudnn_check(status)
                   IN  cud' = [cud EXCEPT
                          !.pos = IF r.continues THEN @ + 1 ELSE Len(activation_steps) + 1,
                          !.failed = IF @ = 0 /\ r.logged THEN cud.pos ELSE @,
                          !.after = @ + ran,
                          !.logged = @ + (IF r.logged THEN 1 ELSE 0)]
           ELSE cud' = [cud EXCEPT
                          !.pos = @ + 1,
                          !.hs = handle_op(@, st[2], st[3]),
                          !.after = @ + ran,
                          !.marked = @ \/ (cud.failed # 0 /\ st[2] = "validate_gpu")]
    /\ UNCHANGED but_cud

\* the kernel returns
ActivationReturn ==
    /\ cud.pc = "run"
    /\ cud.pos > Len(activation_steps)
    /\ cud' = [cud EXCEPT !.pc = "done"]
    /\ UNCHANGED but_cud

CudAtRest == cud = NoCudnn

NextCudnn == ActivationCall \/ ActivationStep \/ ActivationReturn

-----------------------------------------------------------------------------
(* assign_to of the temporary expressions gemv_expr, bias_add_4d_expr and   *)
(* conv_1d_full_expr: the statements run, in order.                         *)

\* gemv_expr::check(a, b, c), a of M x K, b of Kb, c of Mc elements
gemv_check(da, db, dc) == da[2] = db[1] /\ da[1] = dc[1]

\* bias_add_4d_expr::check(a, b, c)
bias_add_check(da, db, dc) ==
    /\ da[2] = db[1]
    /\ \A d \in 1..4 : da[d] = dc[d]

\* conv_1d_full_expr::check(input, kernel, conv)
conv_1d_full_check(da, db, dc) == dc[1] = da[1] + db[1] - 1 /\ da[1] >= db[1]

\* the statements a call of check runs: the kernel is reached if it passes
checked(ok, rest) == IF ok THEN <<"check">> \o rest ELSE <<"check", "assert">>

\* gemv_expr::assign_to(c)
gemv_assign_to(da, db, dc) == checked(gemv_check(da, db, dc), <<"kernel">>)

\* bias_add_4d_expr::assign_to(lhs)
bias_add_assign_to(da, db, dc) ==
    <<"pre_assign_rhs", "pre_assign_rhs", "pre_assign_lhs", "kernel">>

\* conv_1d_full_expr::assign_to(c)
conv_1d_full_assign_to(da, db, dc) ==
    checked(conv_1d_full_check(da, db, dc),
            <<"pre_assign_rhs", "pre_assign_rhs", "pre_assign_lhs", "kernel">>)

NoTemporary == [expr |-> "none", da |-> <<1>>, db |-> <<1>>, dc |-> <<1>>, run |-> <<>>]

TmpDims == 1..MaxTmpDim

\* c = a * b with a matrix a and a vector b
AssignGemv ==
    /\ tmp = NoTemporary
    /\ \E da \in [1..2 -> TmpDims], db \in [1..1 -> TmpDims], dc \in [1..1 -> TmpDims] :
          tmp' = [expr |-> "gemv", da |-> da, db |-> db, dc |-> dc,
                  run |-> gemv_assign_to(da, db, dc)]
    /\ UNCHANGED but_tmp

\* c = bias_add_4d(a, b)
AssignBiasAdd ==
    /\ tmp = NoTemporary
    /\ \E da \in [1..4 -> TmpDims], db \in [1..1 -> TmpDims], dc \in [1..4 -> TmpDims] :
          tmp' = [expr |-> "bias_add", da |-> da, db |-> db, dc |-> dc,
                  run |-> bias_add_assign_to(da, db, dc)]
    /\ UNCHANGED but_tmp

\* c = conv_1d_full(a, b)
AssignConv1Full ==
    /\ tmp = NoTemporary
    /\ \E da \in [1..1 -> TmpDims], db \in [1..1 -> TmpDims],
          dc \in [1..1 -> 1..(2 * MaxTmpDim - 1)] :
          tmp' = [expr |-> "conv_1d_full", da |-> da, db |-> db, dc |-> dc,
                  run |-> conv_1d_full_assign_to(da, db, dc)]
    /\ UNCHANGED but_tmp

TmpAtRest == tmp = NoTemporary

NextTemporary == AssignGemv \/ AssignBiasAdd \/ AssignConv1Full

-----------------------------------------------------------------------------
(* impl/vec/gemm_cr_to_c.hpp, gemm_rc_to_c.hpp, gemm.hpp: the vectorized    *)
(* products.  A matrix of R rows and C columns is a function of its cells   *)
(* <<i, j>>; its memory is a function of the offsets 0 .. R * C - 1, in     *)
(* row-major or column-major order.  The vector loops and the remainder     *)
(* loops of a kernel compute the same sums on blocks of cells: a kernel is  *)
(* modelled by the offsets it reads and the offset it writes for each cell  *)

GemmValues == 0..1
GemmDims == 1..MaxGemmDim
MatCells(R, C) == (0..(R - 1)) \X (0..(C - 1))

\* the left operands: every matrix of the values
Matrices(R, C) == [MatCells(R, C) -> GemmValues]

\* the right operands: the matrices with one cell set
BasisMatrices(R, C) ==
    {[p \in MatCells(R, C) |-> IF p = q THEN 1 ELSE 0] : q \in MatCells(R, C)}

\* the memory of a matrix stored in column-major order: X(i, j) at i + j * R
column_major(X, R, C) == [n \in 0..(R * C - 1) |-> X[<<n % R, n \div R>>]]

\* the memory of a matrix stored in row-major order: X(i, j) at i * C + j
row_major(X, R, C) == [n \in 0..(R * C - 1) |-> X[<<n \div C, n % C>>]]

\* the sum of f[0], ..., f[n - 1]
RECURSIVE sum_k(_, _)
sum_k(f, n) == IF n = 0 THEN 0 ELSE sum_k(f, n - 1) + f[n - 1]

\* the product of two matrices
matrix_product(X, Y, R, C, inner) ==
    [p \in MatCells(R, C) |->
        sum_k([x \in 0..(inner - 1) |-> X[<<p[1], x>>] * Y[<<x, p[2]>>]], inner)]

\* p[n]: a read past the end of the allocation yields any value
read_at(mem, n, past) == IF n \in DOMAIN mem THEN mem[n] ELSE past

\* direct_fill_n(c, n, T(0))
direct_fill_n(n) == [x \in 0..(n - 1) |-> 0]

\* gemm_small_kernel_cr_to_c: c[i + j * M] = sum of a[i + k * M] * b[k * N + j]
gemm_small_kernel_cr_to_c(ma, mb, R, C, inner) ==
    [n \in 0..(R * C - 1) |->
        LET i == n % R
            j == n \div R
        IN  sum_k([x \in 0..(inner - 1) |-> ma[i + x * R] * mb[x * C + j]], inner)]

\* gemm_large_kernel_cr_to_c: every argument is unused, c is left as it is
gemm_large_kernel_cr_to_c(ma, mb, mc, R, C, inner) == mc

\* gemm_cr_to_c(a, b, c, M, N, K)
gemm_cr_to_c(ma, mb, R, C, inner, threshold) ==
    IF R * C <= threshold
    THEN gemm_small_kernel_cr_to_c(ma, mb, R, C, inner)
    ELSE gemm_large_kernel_cr_to_c(ma, mb, direct_fill_n(R * C), R, C, inner)

\* gemm_small_kernel_rc_to_c: c[i + j * M] = sum of a[i * K + k] * b[k + j * K]
gemm_small_kernel_rc_to_c(ma, mb, R, C, inner) ==
    [n \in 0..(R * C - 1) |->
        LET i == n % R
            j == n \div R
        IN  sum_k([x \in 0..(inner - 1) |-> ma[i * inner + x] * mb[x + j * inner]], inner)]

\* gemm_large_kernel_rc_to_c: every argument is unused, c is left as it is
gemm_large_kernel_rc_to_c(ma, mb, mc, R, C, inner) == mc

\* gemm_rc_to_c(a, b, c, M, N, K)
gemm_rc_to_c(ma, mb, R, C, inner, threshold) ==
    IF R * C <= threshold
    THEN gemm_small_kernel_rc_to_c(ma, mb, R, C, inner)
    ELSE gemm_large_kernel_rc_to_c(ma, mb, direct_fill_n(R * C), R, C, inner)

\* gemm_rc_to_r(a, b, c, M, N, K): a row-major, b column-major, c row-major;
\* c[i * N + j] = sum of a[i * K + k] * b[k + j * K]
gemm_rc_to_r(ma, mb, R, C, inner, past) ==
    [n \in 0..(R * C - 1) |->
        LET i == n \div C
            j == n % C
        IN  sum_k([x \in 0..(inner - 1) |->
                     read_at(ma, i * inner + x, past) * read_at(mb, x + j * inner, past)], inner)]

\* gemm_cr_to_r(a, b, c, M, N, K): a column-major, b row-major, c row-major;
\* c[i * N + j] = sum of a[i + k * M] * b[k * N + j]
gemm_cr_to_r(ma, mb, R, C, inner, past) ==
    [n \in 0..(R * C - 1) |->
        LET i == n \div C
            j == n % C
        IN  sum_k([x \in 0..(inner - 1) |->
                     read_at(ma, i + x * R, past) * read_at(mb, x * C + j, past)], inner)]

\* force_temporary_opp(x) of a column-major matrix: a temporary with the
\* same cells in row-major order
force_temporary_opp(X, R, C) == row_major(X, R, C)

\* vec::gemm(a, b, c) with a and b column-major and c row-major: the memory
\* of a is column_major(X), the memory of b is column_major(Y)
gemm_cc_to_row_major(X, Y, R, C, inner, past) ==
    IF R * inner < inner * C
    THEN LET t_a == force_temporary_opp(X, R, inner)
         IN  gemm_rc_to_r(column_major(X, R, inner), t_a, R, C, inner, past)
    ELSE LET t_b == force_temporary_opp(Y, inner, C)
         IN  gemm_cr_to_r(column_major(X, R, inner), t_b, R, C, inner, past)

\* the values of gemm_rr_small_threshold and gemm_nt_rr_small_threshold:
\* below every product of the sizes but 1, and above every one
GemmThresholds == {1, MaxGemmDim * MaxGemmDim}

NoGemm == [fn |-> "none", M |-> 0, N |-> 0, K |-> 0, A |-> <<>>, B |-> <<>>,
           c |-> <<>>, threshold |-> 0]

\* gemm_cr_to_c is called on a column-major a and a row-major b
GemmCrToC ==
    /\ gm = NoGemm
    /\ \E R \in GemmDims, C \in GemmDims, inner \in GemmDims, threshold \in GemmThresholds :
         \E X \in Matrices(R, inner), Y \in BasisMatrices(inner, C) :
            gm' = [fn |-> "gemm_cr_to_c", M |-> R, N |-> C, K |-> inner, A |-> X, B |-> Y,
                   c |-> gemm_cr_to_c(column_major(X, R, inner), row_major(Y, inner, C),
                                      R, C, inner, threshold),
                   threshold |-> threshold]
    /\ UNCHANGED but_gm

\* gemm_rc_to_c is called on a row-major a and a column-major b
GemmRcToC ==
    /\ gm = NoGemm
    /\ \E R \in GemmDims, C \in GemmDims, inner \in GemmDims, threshold \in GemmThresholds :
         \E X \in Matrices(R, inner), Y \in BasisMatrices(inner, C) :
            gm' = [fn |-> "gemm_rc_to_c", M |-> R, N |-> C, K |-> inner, A |-> X, B |-> Y,
                   c |-> gemm_rc_to_c(row_major(X, R, inner), column_major(Y, inner, C),
                                      R, C, inner, threshold),
                   threshold |-> threshold]
    /\ UNCHANGED but_gm

\* vec::gemm is called on column-major a and b and a row-major c
GemmColumnMajorToRowMajor ==
    /\ gm = NoGemm
    /\ \E R \in GemmDims, C \in GemmDims, inner \in GemmDims, past \in GemmValues :
         \E X \in Matrices(R, inner), Y \in BasisMatrices(inner, C) :
            gm' = [fn |-> "gemm", M |-> R, N |-> C, K |-> inner, A |-> X, B |-> Y,
                   c |-> gemm_cc_to_row_major(X, Y, R, C, inner, past),
                   threshold |-> 0]
    /\ UNCHANGED but_gm

GmAtRest == gm = NoGemm

NextGemm == GemmCrToC \/ GemmRcToC \/ GemmColumnMajorToRowMajor

-----------------------------------------------------------------------------
(* sparse.hpp: sparse_matrix_impl in COO format and sparse_reference.  The  *)
(* three arrays _memory, _row_index and _col_index are one sequence of      *)
(* entries <<row, column, value>>; the position n of the code is the        *)
(* element n + 1 of the sequence, and nnz is its length.  reserve_hint and  *)
(* erase_hint allocate new arrays and release the old ones: a pointer into  *)
(* the old _memory dangles from then on                                     *)

SparseValues == 0..1
SparseCells == (0..(MaxSparseDim - 1)) \X (0..(MaxSparseDim - 1))

\* sparse_detail::is_non_zero
is_non_zero(v) == v # 0

\* _row_index[n] == i && _col_index[n] == j, for n < nnz
stored_at(es, i, j, n) == n < Len(es) /\ es[n + 1][1] = i /\ es[n + 1][2] = j

\* find_n(i, j): the first position that holds (i, j) or a later pair of
\* the row-major order, nnz if there is none
find_n(es, i, j) ==
    LET hits == {n \in 0..(Len(es) - 1) :
                    \/ (es[n + 1][1] = i /\ es[n + 1][2] = j)
                    \/ (es[n + 1][1] = i /\ es[n + 1][2] > j)
                    \/ es[n + 1][1] > i}
    IN  IF hits = {} THEN Len(es)
        ELSE CHOOSE n \in hits : \A m \in hits : n <= m

\* reserve_hint(hint): the arrays with a free slot at hint (written by the
\* caller at once); hint <= nnz is asserted
reserve_hint(es, hint) ==
    SubSeq(es, 1, hint) \o << <<0, 0, 0>> >> \o SubSeq(es, hint + 1, Len(es))

\* erase_hint(n)
erase_hint(es, n) ==
    IF Len(es) = 1 THEN <<>>
    ELSE SubSeq(es, 1, n) \o SubSeq(es, n + 2, Len(es))

\* unsafe_set_hint(i, j, n, value)
unsafe_set_hint(es, i, j, n, v) ==
    IF stored_at(es, i, j, n)
    THEN [es EXCEPT ![n + 1] = <<i, j, v>>]
    ELSE [reserve_hint(es, n) EXCEPT ![n + 1] = <<i, j, v>>]

\* get_hint(i, j, n)
get_hint(es, i, j, n) == IF stored_at(es, i, j, n) THEN es[n + 1][3] ELSE 0

\* a faulty set_hint: a zero written to a stored position is kept
set_hint_keeps_zero(es, i, j, n, v) ==
    IF is_non_zero(v) \/ stored_at(es, i, j, n) THEN unsafe_set_hint(es, i, j, n, v) ELSE es

\* set_hint(i, j, n, value)
set_hint(es, i, j, n, v) ==
    IF n < Len(es)
    THEN IF es[n + 1][1] = i /\ es[n + 1][2] = j
         THEN IF is_non_zero(v) THEN unsafe_set_hint(es, i, j, n, v) ELSE erase_hint(es, n)
         ELSE IF is_non_zero(v) THEN unsafe_set_hint(es, i, j, n, v) ELSE es
    ELSE IF is_non_zero(v) THEN unsafe_set_hint(es, i, j, n, v) ELSE es

\* get(i, j)
sparse_get(es, i, j) == get_hint(es, i, j, find_n(es, i, j))

\* set(i, j, value)
sparse_set(es, i, j, v) == set_hint(es, i, j, find_n(es, i, j), v)

\* unsafe_set(i, j, value)
sparse_unsafe_set(es, i, j, v) == unsafe_set_hint(es, i, j, find_n(es, i, j), v)

\* erase(i, j)
sparse_erase(es, i, j) ==
    LET n == find_n(es, i, j)
    IN  IF stored_at(es, i, j, n) THEN erase_hint(es, n) ELSE es

\* non_zeros()
non_zeros(es) == Len(es)

\* the hint of a call reaches reserve_hint beyond nnz: its assertion fails
hint_past_end(es, i, j, n, v, unsafe) ==
    /\ n > Len(es)
    /\ unsafe \/ is_non_zero(v)

Proxies == 1..2
NoProxy == [live |-> FALSE, i |-> 0, j |-> 0, n |-> 0, valid |-> FALSE]
NoSparse == [ents |-> <<>>, px |-> [p \in Proxies |-> NoProxy], op |-> "none", failed |-> FALSE]

LiveProxies == {p \in Proxies : sp.px[p].live}

\* the proxies after the arrays went from es to fs: a change of the number
\* of entries has released the memory their pointers refer to
after_arrays(ps, es, fs) ==
    [p \in Proxies |-> IF Len(fs) # Len(es) THEN [ps[p] EXCEPT !.valid = FALSE] ELSE ps[p]]

\* set(i, j, value), with no proxy alive
SparseSet ==
    /\ ~sp.failed /\ LiveProxies = {}
    /\ \E c \in SparseCells, v \in SparseValues :
         LET fs == sparse_set(sp.ents, c[1], c[2], v)
         IN  /\ Len(fs) <= MaxStored
             /\ sp' = [sp EXCEPT !.ents = fs, !.px = after_arrays(sp.px, sp.ents, fs),
                                 !.op = "set"]

\* unsafe_set(i, j, value)
SparseUnsafeSet ==
    /\ ~sp.failed /\ LiveProxies = {}
    /\ \E c \in SparseCells, v \in SparseValues :
         LET fs == sparse_unsafe_set(sp.ents, c[1], c[2], v)
         IN  /\ Len(fs) <= MaxStored
             /\ sp' = [sp EXCEPT !.ents = fs, !.px = after_arrays(sp.px, sp.ents, fs),
                                 !.op = "unsafe_set"]

\* erase(i, j)
SparseErase ==
    /\ ~sp.failed /\ LiveProxies = {}
    /\ \E c \in SparseCells :
         LET fs == sparse_erase(sp.ents, c[1], c[2])
         IN  sp' = [sp EXCEPT !.ents = fs, !.px = after_arrays(sp.px, sp.ents, fs),
                              !.op = "erase"]

\* operator()(i, j): sparse_reference(matrix, i, j) is constructed, with at
\* most `beside` other proxies alive
ProxyConstruct(beside) ==
    /\ ~sp.failed /\ Cardinality(LiveProxies) <= beside
    /\ \E p \in Proxies \ LiveProxies, c \in SparseCells :
         LET n  == find_n(sp.ents, c[1], c[2])
             fs == unsafe_set_hint(sp.ents, c[1], c[2], n, get_hint(sp.ents, c[1], c[2], n))
         IN  /\ Len(fs) <= MaxStored
             /\ sp' = [sp EXCEPT
                   !.ents = fs,
                   !.px = [after_arrays(sp.px, sp.ents, fs) EXCEPT
                              ![p] = [live |-> TRUE, i |-> c[1], j |-> c[2], n |-> n,
                                      valid |-> TRUE]],
                   !.op = "construct"]

\* sparse_reference::operator=(rhs) and the compound assignments: *ptr is
\* written; a write through a dangling pointer lands in released memory
ProxyWrite ==
    /\ ~sp.failed
    /\ \E p \in LiveProxies, v \in SparseValues :
         LET r == sp.px[p]
         IN  sp' = [sp EXCEPT
                !.ents = IF r.valid THEN [sp.ents EXCEPT ![r.n + 1][3] = v] ELSE sp.ents,
                !.op = "write"]

\* ~sparse_reference(): matrix.set_hint(i, j, n, *ptr); the read of a
\* dangling pointer yields any value
ProxyDestruct ==
    /\ ~sp.failed
    /\ \E p \in LiveProxies, any \in SparseValues :
         LET r  == sp.px[p]
             v  == IF r.valid THEN sp.ents[r.n + 1][3] ELSE any
         IN  IF hint_past_end(sp.ents, r.i, r.j, r.n, v, FALSE)
             THEN sp' = [sp EXCEPT !.px[p] = NoProxy, !.op = "destruct", !.failed = TRUE]
             ELSE LET fs == set_hint(sp.ents, r.i, r.j, r.n, v)
                  IN  /\ Len(fs) <= MaxStored
                      /\ sp' = [sp EXCEPT
                            !.ents = fs,
                            !.px = [after_arrays(sp.px, sp.ents, fs) EXCEPT ![p] = NoProxy],
                            !.op = "destruct"]

SpAtRest == sp = NoSparse

\* a step of the matrix
SetStep == SparseSet /\ UNCHANGED but_sp
UnsafeSetStep == SparseUnsafeSet /\ UNCHANGED but_sp
EraseStep == SparseErase /\ UNCHANGED but_sp
ProxyConstructAlone == ProxyConstruct(0) /\ UNCHANGED but_sp
ProxyConstructBeside == ProxyConstruct(1) /\ UNCHANGED but_sp
ProxyWriteStep == ProxyWrite /\ UNCHANGED but_sp
ProxyDestructStep == ProxyDestruct /\ UNCHANGED but_sp

\* set, erase and proxies, one proxy alive at a time
NextSparse ==
    SetStep \/ EraseStep \/ ProxyConstructAlone \/ ProxyWriteStep \/ ProxyDestructStep

\* set, unsafe_set, erase and proxies, up to two proxies alive at a time
NextSparseProxies ==
    \/ SetStep \/ UnsafeSetStep \/ EraseStep
    \/ ProxyConstructBeside \/ ProxyWriteStep \/ ProxyDestructStep

-----------------------------------------------------------------------------
(* optimizer.hpp: optimizable<Expr>::is and ::is_deep *)

\* optimizable<...>::is, one branch per (partial) specialization
is_optimizable(e) ==
    CASE Kind(e) = "un" -> e[2] = "plus"
      [] Kind(e) = "bin" /\ IsScalarNode(e[3]) /\ IsScalarNode(e[4]) ->
            e[2] \in {"mul", "plus", "div", "minus"}
      [] Kind(e) = "bin" /\ IsScalarNode(e[3]) /\ ~IsScalarNode(e[4]) ->
            \/ FEq(e[3][2], FInt(1)) /\ e[2] = "mul"
            \/ FEq(e[3][2], FInt(0)) /\ e[2] = "mul"
            \/ FEq(e[3][2], FInt(0)) /\ e[2] = "plus"
            \/ FEq(e[3][2], FInt(0)) /\ e[2] = "div"
      [] Kind(e) = "bin" /\ ~IsScalarNode(e[3]) /\ IsScalarNode(e[4]) ->
            \/ FEq(e[4][2], FInt(1)) /\ e[2] = "mul"
            \/ FEq(e[4][2], FInt(0)) /\ e[2] = "mul"
            \/ FEq(e[4][2], FInt(0)) /\ e[2] = "plus"
            \/ FEq(e[4][2], FInt(0)) /\ e[2] = "minus"
            \/ FEq(e[4][2], FInt(1)) /\ e[2] = "div"
      [] OTHER -> FALSE

\* a faulty is_deep: it looks at the root only
is_optimizable_root(e) == is_optimizable(e)

RECURSIVE is_optimizable_deep(_)
is_optimizable_deep(e) ==
    CASE Kind(e) = "un" -> is_optimizable(e) \/ is_optimizable_deep(e[3])
      [] Kind(e) = "bin" ->
            is_optimizable(e) \/ is_optimizable_deep(e[3]) \/ is_optimizable_deep(e[4])
      [] OTHER -> FALSE

\* a faulty transform: 0 * x gives x
transform_dependent(e) ==
    CASE Kind(e) = "un" ->
            IF e[2] = "plus" THEN <<e[3]>> ELSE <<>>
      [] Kind(e) = "bin" /\ IsScalarNode(e[3]) /\ IsScalarNode(e[4]) ->
            IF e[2] = "mul" THEN <<Scalar(FMul(e[3][2], e[4][2]))>>
            ELSE IF e[2] = "plus" THEN <<Scalar(FAdd(e[3][2], e[4][2]))>>
            ELSE IF e[2] = "minus" THEN <<Scalar(FSub(e[3][2], e[4][2]))>>
            ELSE IF e[2] = "div" THEN <<Scalar(FDiv(e[3][2], e[4][2]))>>
            ELSE <<>>
      [] Kind(e) = "bin" /\ IsScalarNode(e[3]) /\ ~IsScalarNode(e[4]) ->
            IF FEq(e[3][2], FInt(1)) /\ e[2] = "mul" THEN <<e[4]>>
            ELSE IF FEq(e[3][2], FInt(0)) /\ e[2] = "mul" THEN <<e[4]>>
            ELSE IF FEq(e[3][2], FInt(0)) /\ e[2] = "plus" THEN <<e[4]>>
            ELSE IF FEq(e[3][2], FInt(0)) /\ e[2] = "div" THEN <<e[3]>>
            ELSE <<>>
      [] Kind(e) = "bin" /\ ~IsScalarNode(e[3]) /\ IsScalarNode(e[4]) ->
            IF FEq(e[4][2], FInt(1)) /\ e[2] = "mul" THEN <<e[3]>>
            ELSE IF FEq(e[4][2], FInt(0)) /\ e[2] = "mul" THEN <<e[4]>>
            ELSE IF FEq(e[4][2], FInt(0)) /\ e[2] = "plus" THEN <<e[3]>>
            ELSE IF FEq(e[4][2], FInt(0)) /\ e[2] = "minus" THEN <<e[3]>>
            ELSE IF FEq(e[4][2], FInt(1)) /\ e[2] = "div" THEN <<e[3]>>
            ELSE <<>>
      [] OTHER -> <<>>

\* a faulty transform: the builder is not called for a unary plus
transform_keeps_unary_plus(e) ==
    CASE Kind(e) = "un" ->
            <<>>
      [] Kind(e) = "bin" /\ IsScalarNode(e[3]) /\ IsScalarNode(e[4]) ->
            IF e[2] = "mul" THEN <<Scalar(FMul(e[3][2], e[4][2]))>>
            ELSE IF e[2] = "plus" THEN <<Scalar(FAdd(e[3][2], e[4][2]))>>
            ELSE IF e[2] = "minus" THEN <<Scalar(FSub(e[3][2], e[4][2]))>>
            ELSE IF e[2] = "div" THEN <<Scalar(FDiv(e[3][2], e[4][2]))>>
            ELSE <<>>
      [] Kind(e) = "bin" /\ IsScalarNode(e[3]) /\ ~IsScalarNode(e[4]) ->
            IF FEq(e[3][2], FInt(1)) /\ e[2] = "mul" THEN <<e[4]>>
            ELSE IF FEq(e[3][2], FInt(0)) /\ e[2] = "mul" THEN <<e[3]>>
            ELSE IF FEq(e[3][2], FInt(0)) /\ e[2] = "plus" THEN <<e[4]>>
            ELSE IF FEq(e[3][2], FInt(0)) /\ e[2] = "div" THEN <<e[3]>>
            ELSE <<>>
      [] Kind(e) = "bin" /\ ~IsScalarNode(e[3]) /\ IsScalarNode(e[4]) ->
            IF FEq(e[4][2], FInt(1)) /\ e[2] = "mul" THEN <<e[3]>>
            ELSE IF FEq(e[4][2], FInt(0)) /\ e[2] = "mul" THEN <<e[4]>>
            ELSE IF FEq(e[4][2], FInt(0)) /\ e[2] = "plus" THEN <<e[3]>>
            ELSE IF FEq(e[4][2], FInt(0)) /\ e[2] = "minus" THEN <<e[3]>>
            ELSE IF FEq(e[4][2], FInt(1)) /\ e[2] = "div" THEN <<e[3]>>
            ELSE <<>>
      [] OTHER -> <<>>

(* optimizer.hpp: transformer<Expr>::transform.  The value is the sequence *)
(* of expressions the parent builder is called with.                       *)
transform(e) ==
    CASE Kind(e) = "un" ->
            IF e[2] = "plus" THEN <<e[3]>> ELSE <<>>
      [] Kind(e) = "bin" /\ IsScalarNode(e[3]) /\ IsScalarNode(e[4]) ->
            IF e[2] = "mul" THEN <<Scalar(FMul(e[3][2], e[4][2]))>>
            ELSE IF e[2] = "plus" THEN <<Scalar(FAdd(e[3][2], e[4][2]))>>
            ELSE IF e[2] = "minus" THEN <<Scalar(FSub(e[3][2], e[4][2]))>>
            ELSE IF e[2] = "div" THEN <<Scalar(FDiv(e[3][2], e[4][2]))>>
            ELSE <<>>
      [] Kind(e) = "bin" /\ IsScalarNode(e[3]) /\ ~IsScalarNode(e[4]) ->
            IF FEq(e[3][2], FInt(1)) /\ e[2] = "mul" THEN <<e[4]>>
            ELSE IF FEq(e[3][2], FInt(0)) /\ e[2] = "mul" THEN <<e[3]>>
            ELSE IF FEq(e[3][2], FInt(0)) /\ e[2] = "plus" THEN <<e[4]>>
            ELSE IF FEq(e[3][2], FInt(0)) /\ e[2] = "div" THEN <<e[3]>>
            ELSE <<>>
      [] Kind(e) = "bin" /\ ~IsScalarNode(e[3]) /\ IsScalarNode(e[4]) ->
            IF FEq(e[4][2], FInt(1)) /\ e[2] = "mul" THEN <<e[3]>>
            ELSE IF FEq(e[4][2], FInt(0)) /\ e[2] = "mul" THEN <<e[4]>>
            ELSE IF FEq(e[4][2], FInt(0)) /\ e[2] = "plus" THEN <<e[3]>>
            ELSE IF FEq(e[4][2], FInt(0)) /\ e[2] = "minus" THEN <<e[3]>>
            ELSE IF FEq(e[4][2], FInt(1)) /\ e[2] = "div" THEN <<e[3]>>
            ELSE <<>>
      [] OTHER -> <<>>

\* a faulty optimizer<binary_expr>::apply: the right operand is tried first
RECURSIVE optimize_right_first(_)
optimize_right_first(e) ==
    CASE Kind(e) = "un" ->
            IF is_optimizable(e) THEN transform(e)
            ELSE IF is_optimizable_deep(e[3])
                 THEN LET sub == optimize_right_first(e[3])
                      IN  [i \in 1..Len(sub) |-> Unary(e[2], sub[i])]
                 ELSE <<e>>
      [] Kind(e) = "bin" ->
            IF is_optimizable(e) THEN transform(e)
            ELSE IF is_optimizable_deep(e[4])
                 THEN LET sub == optimize_right_first(e[4])
                      IN  [i \in 1..Len(sub) |-> Binary(e[2], e[3], sub[i])]
            ELSE IF is_optimizable_deep(e[3])
                 THEN LET sub == optimize_right_first(e[3])
                      IN  [i \in 1..Len(sub) |-> Binary(e[2], sub[i], e[4])]
            ELSE <<e>>
      [] OTHER -> <<>>

(* optimizer.hpp: optimize = optimizer<Expr>::apply.  The value is the     *)
(* sequence of expressions parent_builder is called with.                  *)
RECURSIVE optimize(_)
optimize(e) ==
    CASE Kind(e) = "un" ->
            IF is_optimizable(e) THEN transform(e)
            ELSE IF is_optimizable_deep(e[3])
                 THEN LET sub == optimize(e[3])
                      IN  [i \in 1..Len(sub) |-> Unary(e[2], sub[i])]
                 ELSE <<e>>
      [] Kind(e) = "bin" ->
            IF is_optimizable(e) THEN transform(e)
            ELSE IF is_optimizable_deep(e[3])
                 THEN LET sub == optimize(e[3])
                      IN  [i \in 1..Len(sub) |-> Binary(e[2], sub[i], e[4])]
            ELSE IF is_optimizable_deep(e[4])
                 THEN LET sub == optimize(e[4])
                      IN  [i \in 1..Len(sub) |-> Binary(e[2], e[3], sub[i])]
            ELSE <<e>>
      [] OTHER -> <<>>

-----------------------------------------------------------------------------
(* Evaluation of an expression into a destination: element i of the        *)
(* destination is element i of the expression (fast_vector.hpp,            *)
(* fast_op.hpp).                                                           *)

RECURSIVE ElemAt(_, _, _)
ElemAt(e, mem, i) ==
    CASE Kind(e) = "leaf" -> mem[i]
      [] Kind(e) = "scalar" -> e[2]
      [] Kind(e) = "un" -> apply_unary(e[2], ElemAt(e[3], mem, i))
      [] Kind(e) = "bin" -> apply_binary(e[2], ElemAt(e[3], mem, i), ElemAt(e[4], mem, i))

assign_evaluate(e, mem) == [i \in 1..VecLen |-> ElemAt(e, mem, i)]

-----------------------------------------------------------------------------
(* The expressions and contents the optimizer is run on *)

ScalarValues == {FInt(0), FInt(1)}
Atoms == {Leaf} \cup {Scalar(v) : v \in ScalarValues}

\* the operands a builder is given besides the expression under construction
Operands == Atoms \cup {Unary(op, e) : op \in UnaryOps, e \in Atoms}

RECURSIVE Nodes(_)
Nodes(e) ==
    CASE Kind(e) = "un" -> 1 + Nodes(e[3])
      [] Kind(e) = "bin" -> 1 + Nodes(e[3]) + Nodes(e[4])
      [] OTHER -> 0

ElemValues == {FNaN, FInf(1), FInt(-1), FZero(-1), FZero(1), FInt(2)}
Contents == [1..VecLen -> ElemValues]
NoMem == <<>>

-----------------------------------------------------------------------------
(* optimizer.hpp: optimizer<temporary_unary_expr> and                       *)
(* optimizer<temporary_binary_expr>.  A temporary node holds an operation   *)
(* and one or two operands.                                                 *)

TempUnary(op, a) == <<"tun", op, a>>
TempBinary(op, a, b) == <<"tbin", op, a, b>>

TempUnaryOps == {"fft_1d", "transpose"}
TempBinaryOps == {"mm_mul", "conv_1d_full"}

\* optimizable<temporary_unary_expr>::is_deep and optimizable<temporary_binary_expr>::is_deep
is_optimizable_deep_temporary(e) ==
    CASE e[1] = "tun" -> is_optimizable_deep(e[3])
      [] e[1] = "tbin" -> is_optimizable_deep(e[3]) \/ is_optimizable_deep(e[4])
      [] OTHER -> FALSE

\* the nodes optimizer<temporary_unary_expr>::apply can hand to parent_builder:
\* temporary_unary_expr<T, new A, Op>(new_lhs)
optimizer_temporary_unary(e) ==
    IF is_optimizable_deep(e[3])
    THEN LET sub == optimize(e[3])
         IN  {TempUnary(e[2], sub[i]) : i \in 1..Len(sub)}
    ELSE {e}

\* the nodes optimizer<temporary_binary_expr>::apply can hand to parent_builder.
\* The new node is constructed from the optimized operand alone,
\* temporary_binary_expr<T, new A, B, Op>(new_lhs) and
\* temporary_binary_expr<T, A, new B, Op>(new_rhs): the operand that is not
\* rewritten is not given to it, and can be any expression of its type.
optimizer_temporary_binary(e, others) ==
    IF is_optimizable_deep(e[3])
    THEN LET sub == optimize(e[3])
         IN  {TempBinary(e[2], sub[i], x) : i \in 1..Len(sub), x \in others}
    ELSE IF is_optimizable_deep(e[4])
    THEN LET sub == optimize(e[4])
         IN  {TempBinary(e[2], x, sub[i]) : i \in 1..Len(sub), x \in others}
    ELSE {e}

NoTempOptimize == [expr |-> <<"none">>, out |-> <<"none">>]

\* optimize is called on a temporary unary node
OptimizeTemporaryUnary ==
    /\ topt = NoTempOptimize
    /\ \E op \in TempUnaryOps, a \in Operands :
          LET e == TempUnary(op, a)
          IN  \E o \in optimizer_temporary_unary(e) : topt' = [expr |-> e, out |-> o]
    /\ UNCHANGED but_topt

\* optimize is called on a temporary binary node
OptimizeTemporaryBinary ==
    /\ topt = NoTempOptimize
    /\ \E op \in TempBinaryOps, a \in Operands, b \in Operands :
          LET e == TempBinary(op, a, b)
          IN  \E o \in optimizer_temporary_binary(e, Operands) :
                 topt' = [expr |-> e, out |-> o]
    /\ UNCHANGED but_topt

ToptAtRest == topt = NoTempOptimize

NextTempOptimize == OptimizeTemporaryUnary \/ OptimizeTemporaryBinary

-----------------------------------------------------------------------------
(* Building an expression, then optimizer.hpp: optimized_forward *)

InitOptVars ==
    /\ cur \in Atoms
    /\ orig = cur
    /\ prev = cur
    /\ passes = 0
    /\ results = 0
    /\ opc = "build"
    /\ a_mem = NoMem
    /\ d_orig = NoMem
    /\ d_opt = NoMem

\* a unary builder applied to the expression under construction
BuildUnary ==
    /\ opc = "build"
    /\ Nodes(cur) < MaxNodes
    /\ \E op \in UnaryOps : cur' = Unary(op, cur)
    /\ orig' = cur'
    /\ prev' = cur'
    /\ UNCHANGED <<passes, results, opc, a_mem, d_orig, d_opt>>
    /\ UNCHANGED <<build_vars, sel_vars, ext_vars>>

\* a binary builder applied to the expression under construction and an operand
BuildBinary ==
    /\ opc = "build"
    /\ Nodes(cur) < MaxNodes
    /\ \E op \in BinaryOps, x \in Operands :
          \/ cur' = Binary(op, x, cur)
          \/ cur' = Binary(op, cur, x)
    /\ orig' = cur'
    /\ prev' = cur'
    /\ UNCHANGED <<passes, results, opc, a_mem, d_orig, d_opt>>
    /\ UNCHANGED <<build_vars, sel_vars, ext_vars>>

\* optimized_forward(expr, result), is_optimizable_deep(expr) holds:
\* optimize(builder, expr), whose builder calls optimized_forward again
ForwardOptimize ==
    /\ opc \in {"build", "run"}
    /\ is_optimizable_deep(cur)
    /\ LET outs == optimize(cur)
       IN  IF Len(outs) = 0
           THEN /\ opc' = "lost"
                /\ UNCHANGED <<cur, prev>>
           ELSE /\ cur' = outs[1]
                /\ prev' = cur
                /\ opc' = "run"
    /\ passes' = passes + 1
    /\ UNCHANGED <<orig, results, a_mem, d_orig, d_opt>>
    /\ UNCHANGED <<build_vars, sel_vars, ext_vars>>

\* optimized_forward(expr, result), nothing is optimizable: result(expr)
ForwardResult ==
    /\ opc \in {"build", "run"}
    /\ ~is_optimizable_deep(cur)
    /\ results' = results + 1
    /\ opc' = "done"
    /\ UNCHANGED <<orig, cur, prev, passes, a_mem, d_orig, d_opt>>
    /\ UNCHANGED <<build_vars, sel_vars, ext_vars>>

\* the result functor assigns the optimized expression to the destination;
\* the same destination filled from the expression as written is kept beside it
Evaluate ==
    /\ opc = "done"
    /\ \E mem \in Contents :
          /\ a_mem' = mem
          /\ d_orig' = assign_evaluate(orig, mem)
          /\ d_opt' = assign_evaluate(cur, mem)
    /\ opc' = "evaluated"
    /\ UNCHANGED <<orig, cur, prev, passes, results>>
    /\ UNCHANGED <<build_vars, sel_vars, ext_vars>>

-----------------------------------------------------------------------------------------------------------------------------------------------------
(* Specifications: one per part of the library.  The parts share no state;  *)
(* the parts a specification does not run stay in an initial state.         *)

OptAtRest ==
    /\ orig = Leaf /\ cur = Leaf /\ prev = Leaf
    /\ passes = 0 /\ results = 0 /\ opc = "build"
    /\ a_mem = NoMem /\ d_orig = NoMem /\ d_opt = NoMem

BuildersAtRest == b_res = NoCall

AssignAtRest ==
    /\ dst = [gen |-> FALSE, fast |-> FALSE, dims |-> <<1>>, start |-> 0, data |-> <<1>>]
    /\ asg = NoAssign
    /\ n_asg = 0

SelAtRest ==
    /\ flags = [vec_enabled |-> FALSE, cblas_enabled |-> FALSE, cublas_enabled |-> FALSE,
                mkl_enabled |-> FALSE]
    /\ ctx = [fam \in Families |-> Unforced]
    /\ sel = NoSelection
    /\ last = NoSelection

DispatchAtRest == call = NoDispatch

ParAtRest ==
    /\ p_cfg = [parallel |-> FALSE, serial |-> FALSE, forced_parallel |-> FALSE,
                sum_threshold |-> 1, dflt_threshold |-> 1,
                conv_threshold |-> 1, kernel_threshold |-> 1]
    /\ p_in = [e |-> <<1>>, nk |-> 1]
    /\ par = NoRun

KernelAtRest ==
    /\ coh = [x \in {"a", "b", "c", "t"} |-> Fresh]
    /\ kern = NoKernel

FnAtRest ==
    /\ fn_x = <<0>>
    /\ fn = NoFunction

TpAtRest == InitTpVars

MoreAtRest == AccAtRest /\ CudAtRest /\ TmpAtRest /\ ToptAtRest /\ GmAtRest /\ SpAtRest

ExtAtRest == DispatchAtRest /\ ParAtRest /\ KernelAtRest /\ FnAtRest /\ TpAtRest /\ MoreAtRest

\* the optimizer
InitOpt == InitOptVars /\ BuildersAtRest /\ AssignAtRest /\ SelAtRest /\ ExtAtRest
NextOpt == BuildUnary \/ BuildBinary \/ ForwardOptimize \/ ForwardResult
SpecOpt == InitOpt /\ [][NextOpt]_vars
\* optimized_forward is a sequential call: once it can take a step it takes it
SpecOptFair == SpecOpt /\ WF_vars(ForwardOptimize) /\ WF_vars(ForwardResult)

\* the optimizer and the evaluation of its result
NextEval == NextOpt \/ Evaluate
SpecEval == InitOpt /\ [][NextEval]_vars

\* the expression builders
InitBuild == InitBuilderVars /\ AssignAtRest /\ OptAtRest /\ SelAtRest /\ ExtAtRest
NextBuild == BuilderCall
SpecBuild == InitBuild /\ [][NextBuild]_vars

\* the assignment operators
InitAssign == InitAssignVars /\ BuildersAtRest /\ OptAtRest /\ SelAtRest /\ ExtAtRest
NextAssign == Assign
SpecAssign == InitAssign /\ [][NextAssign]_vars

\* the dispatchers of sum, dot, gemv and transpose
InitDispatch == InitDispatchVars /\ BuildersAtRest /\ AssignAtRest /\ OptAtRest /\ ParAtRest
                /\ KernelAtRest /\ FnAtRest /\ TpAtRest /\ MoreAtRest
NextDispatch ==
    ForceAny \/ ReleaseAny \/ DispatchSum \/ DispatchDot \/ DispatchGemv \/ DispatchTranspose
SpecDispatch == InitDispatch /\ [][NextDispatch]_vars

\* the choice of a serial or a parallel execution
InitParallel ==
    InitParVars /\ BuildersAtRest /\ AssignAtRest /\ OptAtRest /\ SelAtRest /\ DispatchAtRest
                /\ KernelAtRest /\ FnAtRest /\ TpAtRest /\ MoreAtRest
NextParallel == CallSum \/ CallAsum \/ CallConv
SpecParallel == InitParallel /\ [][NextParallel]_vars

\* the parallel sum
InitReduce ==
    InitReduceVars /\ BuildersAtRest /\ AssignAtRest /\ OptAtRest /\ SelAtRest /\ DispatchAtRest
                   /\ KernelAtRest /\ FnAtRest /\ TpAtRest /\ MoreAtRest
NextReduce == CallSum \/ WorkerDone \/ Combine
SpecReduce == InitReduce /\ [][NextReduce]_vars

\* the kernels
InitKernel ==
    InitKernelVars /\ BuildersAtRest /\ AssignAtRest /\ OptAtRest /\ SelAtRest /\ DispatchAtRest
                   /\ ParAtRest /\ FnAtRest /\ TpAtRest /\ MoreAtRest
NextKernel == KernelCall \/ KernelStep
SpecKernel == InitKernel /\ [][NextKernel]_vars

\* the function builders
InitFn ==
    InitFnVars /\ BuildersAtRest /\ AssignAtRest /\ OptAtRest /\ SelAtRest /\ DispatchAtRest
               /\ ParAtRest /\ KernelAtRest /\ TpAtRest /\ MoreAtRest
NextFn == FunctionCall \/ FunctionOperandWrite \/ FunctionEvaluate
SpecFn == InitFn /\ [][NextFn]_vars

\* the transposition
InitTp ==
    InitTpVars /\ BuildersAtRest /\ AssignAtRest /\ OptAtRest /\ SelAtRest /\ DispatchAtRest
               /\ ParAtRest /\ KernelAtRest /\ FnAtRest /\ MoreAtRest
NextTp == TransposeCall \/ TransposeStep \/ TransposeReturn
SpecTp == InitTp /\ [][NextTp]_vars

\* every part at rest: the state the later parts start from
InitMore == BuildersAtRest /\ AssignAtRest /\ OptAtRest /\ SelAtRest /\ ExtAtRest

\* the element access
SpecAccess == InitMore /\ [][NextAccess]_vars

\* the cuDNN kernels
SpecCudnn == InitMore /\ [][NextCudnn]_vars

\* the temporary expressions
SpecTemporary == InitMore /\ [][NextTemporary]_vars

\* the optimizer of the temporary expressions
SpecTempOptimize == InitMore /\ [][NextTempOptimize]_vars

\* the vectorized products
SpecGemm == InitMore /\ [][NextGemm]_vars

\* the sparse matrix: the operations one after the other, and with proxies alive
SpecSparse == InitMore /\ [][NextSparse]_vars
SpecSparseProxies == InitMore /\ [][NextSparseProxies]_vars

\* the implementation selectors
InitSel == InitSelVars /\ BuildersAtRest /\ AssignAtRest /\ OptAtRest /\ ExtAtRest
NextSel == Force \/ Release \/ SelectSum \/ SelectDot
SpecSel == InitSel /\ [][NextSel]_vars

-----------------------------------------------------------------------------
(* Properties of the builders (SpecBuild) *)

\* C1: an arithmetic builder (operator-, operator+, operator>>, scale,
\* operator/, operator%) called with two dynamically-sized non-generator
\* operands whose size() differ fails the assertion: no node is returned
C1_MismatchAsserts ==
    (/\ b_res.builder \in ArithmeticBuilders
     /\ ~b_res.lhs.gen /\ ~b_res.rhs.gen
     /\ ~b_res.lhs.fast /\ ~b_res.rhs.fast
     /\ size(b_res.lhs) # size(b_res.rhs))
    => b_res.outcome = "assert"

\* an arithmetic builder has been called with dynamic operands of sizes 2 and 3
C1_Witness ==
    /\ b_res.builder \in ArithmeticBuilders
    /\ ~b_res.lhs.gen /\ ~b_res.rhs.gen
    /\ ~b_res.lhs.fast /\ ~b_res.rhs.fast
    /\ size(b_res.lhs) = 2 /\ size(b_res.rhs) = 3
    /\ b_res.outcome = "assert"

\* C2: the comparison and logical builders reject two non-generator operands
\* whose sizes differ, as the arithmetic builders do
C2_ComparisonValidates ==
    (/\ b_res.builder \in ComparisonBuilders
     /\ ~b_res.lhs.gen /\ ~b_res.rhs.gen
     /\ size(b_res.lhs) # size(b_res.rhs))
    => b_res.outcome # "node"

\* C3 as written: a + b with a 3x2 and b 2x3 (dynamic) fails the validation
C3_ShapeMismatchAsserts ==
    (/\ b_res.builder = "operator+"
     /\ ~b_res.lhs.gen /\ ~b_res.rhs.gen
     /\ ~b_res.lhs.fast /\ ~b_res.rhs.fast
     /\ b_res.lhs.dims = <<3, 2>> /\ b_res.rhs.dims = <<2, 3>>)
    => b_res.outcome = "assert"

\* C3 amended: the run-time validation of an arithmetic builder compares the
\* total size() only: the node is returned exactly when the sizes are equal,
\* whatever the extents of the dimensions
C3_TotalSizeDecides ==
    (/\ b_res.builder \in ArithmeticBuilders
     /\ ~b_res.lhs.gen /\ ~b_res.rhs.gen
     /\ ~(b_res.lhs.fast /\ b_res.rhs.fast))
    => (b_res.outcome = "node" <=> size(b_res.lhs) = size(b_res.rhs))

\* a 3x2 and a 2x3 dynamic matrix have been added and the node was returned
C3_Witness ==
    /\ b_res.builder = "operator+"
    /\ ~b_res.lhs.fast /\ ~b_res.rhs.fast
    /\ b_res.lhs.dims = <<3, 2>> /\ b_res.rhs.dims = <<2, 3>>
    /\ b_res.outcome = "node"

-----------------------------------------------------------------------------
(* Properties of the assignment operators (SpecAssign) *)

-----------------------------------------------------------------------------
(* Properties of the optimizer (SpecOpt, SpecEval).  After a call of        *)
(* optimize, prev is the expression given and cur the expression returned.  *)

\* C6: evaluating the optimized expression into a destination gives the
\* contents that evaluating the expression as written gives, bit for bit
C6_OptimizedEvaluatesIdentically == opc = "evaluated" => d_opt = d_orig

\* C7: a root matching one of the nine rules is rewritten as stated:
\* 1*x -> x, 0*x -> 0, 0+x -> x, 0/x -> 0, x*1 -> x, x*0 -> 0, x+0 -> x,
\* x-0 -> x, x/1 -> x (x not a scalar; 0 is a scalar node, without x)
C7_NineRewrites ==
    (passes > 0 /\ Kind(prev) = "bin") =>
       LET op == prev[2]
           l == prev[3]
           r == prev[4]
           one == Scalar(FInt(1))
           zero == Scalar(FInt(0))
       IN  /\ (l = one /\ ~IsScalarNode(r) /\ op = "mul") => cur = r
           /\ (l = zero /\ ~IsScalarNode(r) /\ op = "mul") => cur = zero
           /\ (l = zero /\ ~IsScalarNode(r) /\ op = "plus") => cur = r
           /\ (l = zero /\ ~IsScalarNode(r) /\ op = "div") => cur = zero
           /\ (r = one /\ ~IsScalarNode(l) /\ op = "mul") => cur = l
           /\ (r = zero /\ ~IsScalarNode(l) /\ op = "mul") => cur = zero
           /\ (r = zero /\ ~IsScalarNode(l) /\ op = "plus") => cur = l
           /\ (r = zero /\ ~IsScalarNode(l) /\ op = "minus") => cur = l
           /\ (r = one /\ ~IsScalarNode(l) /\ op = "div") => cur = l

\* 0.0 * a has been optimized into the scalar 0
C7_Witness ==
    /\ passes > 0
    /\ prev = Binary("mul", Scalar(FInt(0)), Leaf)
    /\ cur = Scalar(FInt(0))

RECURSIVE SubExprs(_)
SubExprs(e) ==
    CASE Kind(e) = "un" -> {e} \cup SubExprs(e[3])
      [] Kind(e) = "bin" -> {e} \cup SubExprs(e[3]) \cup SubExprs(e[4])
      [] OTHER -> {e}

-----------------------------------------------------------------------------
(* Properties of the selectors (SpecSel): sel and last are two consecutive  *)
(* calls in one build (the flags do not change)                             *)

-----------------------------------------------------------------------------
(* Properties of the dispatchers (SpecDispatch): call is the last          *)
(* operation dispatched                                                    *)

\* all_dma and all_floating of the types the transpose selectors of the
\* call were instantiated with
CallDma == IF call.mode = "out" THEN call.traits.dma_a /\ call.traits.dma_c
           ELSE call.traits.dma_c
CallFloating == IF call.mode = "out" THEN call.traits.floating_a /\ call.traits.floating_c
                ELSE call.traits.floating_c

\* the default selection for the operands of the call
DefaultOfCall ==
    CASE call.family = "sum" -> select_default_sum_impl(call.traits, call.gpu)
      [] call.family = "dot" -> select_default_dot_impl(call.traits)
      [] call.family = "gemm" -> select_default_gemv_impl(call.traits, call.n1, call.n2)
      [] call.family = "transpose" ->
            IF call.mode = "in_square"
            THEN select_default_in_square_transpose_impl(CallDma, CallFloating,
                        call.traits.dma_c, call.traits.floating_c)
            ELSE select_default_transpose_impl(CallDma, CallFloating,
                        call.traits.dma_c, call.traits.floating_c)

\* the backend of the implementation is part of the build and the operand
\* types of the call are ones its kernel accepts: the conditions under which
\* the default selection of the family takes the implementation (or, for an
\* implementation no default takes, the forced selection), less the ones on
\* run-time arguments
Available(impl) ==
    CASE impl = "STD" -> TRUE
      [] call.family = "sum" /\ impl = "VEC" -> flags.vec_enabled /\ call.traits.vec
      [] call.family = "sum" /\ impl = "BLAS" ->
            flags.cblas_enabled /\ call.traits.dma /\ call.traits.floating
      [] call.family = "sum" /\ impl = "CUBLAS" ->
            flags.cublas_enabled /\ call.traits.dma /\ call.traits.floating
      [] call.family = "dot" /\ impl = "VEC" ->
            flags.vec_enabled /\ call.traits.vec /\ call.traits.same_intrinsic
      [] call.family = "dot" /\ impl = "BLAS" -> flags.cblas_enabled /\ call.traits.dma
      [] call.family = "dot" /\ impl = "CUBLAS" -> flags.cublas_enabled /\ call.traits.dma
      [] call.family = "gemm" /\ impl = "VEC" ->
            flags.vec_enabled /\ call.traits.vec /\ call.traits.homo
      [] call.family = "gemm" /\ impl = "BLAS" -> flags.cblas_enabled /\ call.traits.homo
      [] call.family = "gemm" /\ impl = "CUBLAS" -> flags.cublas_enabled /\ call.traits.homo
      [] call.family = "transpose" /\ impl = "CUBLAS" ->
            flags.cublas_enabled /\ CallDma /\ CallFloating
      [] call.family = "transpose" /\ impl = "MKL" ->
            flags.mkl_enabled /\ call.traits.dma_c /\ call.traits.floating_c
      [] OTHER -> FALSE

\* C11: in every family, a forced implementation that is not available for
\* the operands of the call is not the one selected: the selection is the
\* default selection for the same operands
C11_UnavailableForcedFallsBack ==
    (/\ call.family # "none"
     /\ call.forced.forced
     /\ ~Available(call.forced.impl))
    => (call.impl = DefaultOfCall /\ call.impl # call.forced.impl)

\* in the families other than dot the fallback is the default selection
FallsBackOutsideDot ==
    (/\ call.family \in {"sum", "gemm", "transpose"}
     /\ call.forced.forced
     /\ ~Available(call.forced.impl))
    => (call.impl = DefaultOfCall /\ call.impl # call.forced.impl)

\* C12: whatever is forced, the implementation selected is available for the
\* operands and the dispatcher does not reach its 'invalid selection' branch
C12_SelectedIsAvailable ==
    call.family # "none" => (Available(call.impl) /\ call.kernel # "unreachable")

\* the families whose dispatcher has an 'invalid selection' branch select
\* an available implementation
SelectedIsAvailableGemvTranspose ==
    call.family \in {"gemm", "transpose"}
       => (Available(call.impl) /\ call.kernel # "unreachable")

\* an implementation the default selection may take for the call: it is
\* available and, for the GPU kernels, the run-time condition of the family
\* holds (sum: the operand is up to date on the GPU; gemv: a complex single
\* matrix of more than 1000 * 1000 elements)
Eligible(impl) ==
    /\ Available(impl)
    /\ (call.family = "sum" /\ impl = "CUBLAS") => call.gpu
    /\ (call.family = "gemm" /\ impl = "CUBLAS") =>
          (call.traits.complex_single /\ call.n1 * call.n2 > 1000 * 1000)

\* the first eligible implementation of a sequence ending with STD
FirstEligible(order) ==
    order[CHOOSE i \in 1..Len(order) :
             Eligible(order[i]) /\ \A j \in 1..(i - 1) : ~Eligible(order[j])]

\* the order of the specification: GPU, vendor BLAS, vectorized, scalar
SpecOrder == <<"CUBLAS", "BLAS", "MKL", "VEC", "STD">>

\* the order of each default selector
DefaultOrder(fam) ==
    CASE fam = "sum" -> <<"CUBLAS", "VEC", "STD">>
      [] fam = "dot" -> <<"BLAS", "VEC", "STD">>
      [] fam = "gemm" -> <<"VEC", "BLAS", "CUBLAS", "STD">>
      [] fam = "transpose" -> <<"CUBLAS", "MKL", "STD">>

-----------------------------------------------------------------------------
(* Properties of the serial or parallel execution (SpecParallel,            *)
(* SpecReduce)                                                              *)

\* the range of the operation run is smaller than the threshold of the
\* operation: sum_parallel_threshold for sum and asum, and for the 1D
\* convolution conv1_parallel_threshold_conv or, for its kernel,
\* conv1_parallel_threshold_kernel
BelowThreshold ==
    IF par.op = "conv1"
    THEN \/ Len(p_in.e) < p_cfg.conv_threshold
         \/ p_in.nk < p_cfg.kernel_threshold
    ELSE Len(p_in.e) < p_cfg.sum_threshold

\* C14: an operation (sum, asum, 1D convolution) on a range smaller than
\* the threshold of the operation is executed serially; it is executed in
\* parallel only on a range that reaches the threshold
C14_BelowThresholdSerial ==
    (par.op # "none" /\ BelowThreshold) => par.mode = "serial"

\* sum and the 1D convolution are executed serially below their threshold
SumAndConvBelowThresholdSerial ==
    (par.op \in {"sum", "conv1"} /\ BelowThreshold) => par.mode = "serial"

\* the partial sums of the sub-ranges of e, accumulated from the first
\* sub-range to the last
IndexOrderSum ==
    LET n == Len(p_in.e)
        RECURSIVE upto(_)
        upto(t) == IF t = 0 THEN 0
                   ELSE fadd(upto(t - 1), range_sum(p_in.e, sub_first(n, t), sub_last(n, t)))
    IN  upto(Threads)

-----------------------------------------------------------------------------
(* Properties of the kernels (SpecKernel): kern.pc > Len(kern.steps) when the     *)
(* the kernel has returned                                                  *)

KernelDone == kern.pc > Len(kern.steps) /\ kern.kernel # "none"

\* C16: a kernel that has written the CPU side of its destination leaves
\* the GPU side of the destination invalid, and one that has written the
\* GPU side leaves the CPU side invalid
C16_OtherSideInvalid ==
    KernelDone =>
       /\ kern.wrote = "cpu" => ~coh["c"].gpu
       /\ kern.wrote = "gpu" => ~coh["c"].cpu

\* C17: no kernel reads the memory of an operand on a side without a call,
\* earlier in the same kernel call, that ensures the operand up to date on
\* that side
C17_EnsuredBeforeRead == kern.unensured = {}

\* C18: when a kernel has returned, the side of the destination it has
\* written is valid, whatever the state of the destination was
C18_WrittenSideValid ==
    KernelDone =>
       /\ kern.wrote = "cpu" => coh["c"].cpu
       /\ kern.wrote = "gpu" => coh["c"].gpu

\* the cuDNN kernels ensure each operand before reading it, validate the
\* side written and invalidate the other one
CudnnKernelsCoherent ==
    kern.kernel \in {"cudnn::activation", "cudnn::backward_activation"}
       => (C16_OtherSideInvalid /\ C17_EnsuredBeforeRead /\ C18_WrittenSideValid)

-----------------------------------------------------------------------------
(* Properties of the function builders (SpecFn)                             *)

\* C19: the call of a builder computes no reduction and no element value of
\* its operand: the node alone is built
C19_NoComputationAtConstruction ==
    fn.builder # "none" => fn.reductions = <<>>

\* the element-wise builders compute nothing when called, and the node they
\* return is evaluated on the content the container has at evaluation
ElementWiseBuildersAreLazy ==
    fn.builder \in {"exp", "softplus", "operator+"}
       => /\ fn.reductions = <<>>
          /\ fn.out # <<>> => fn.out = elems_of(function_body(fn.builder, fn_x).node, fn_x)

\* an evaluated softmax or stable_softmax is the node a call on the content
\* at evaluation returns
SoftmaxSeesContentAtEvaluation ==
    (fn.builder \in {"softmax", "stable_softmax"} /\ fn.out # <<>>)
       => fn.out = elems_of(function_body(fn.builder, fn_x).node, fn_x)

-----------------------------------------------------------------------------
(* Properties of the transposition (SpecTp)                                 *)

\* the ranges of the operand and of the destination overlap
TpOverlap == tp.off < tp.M * tp.N

\* the destination holds the transpose of what the operand held at the call
TpResultCorrect ==
    \A i \in 0..(tp.M - 1), j \in 0..(tp.N - 1) :
       tp_mem[tp.off + j * tp.M + i] = i * tp.N + j

\* C20: when the ranges of the operand and of the destination overlap, fully
\* or partially, the transposition never reads an element of the operand
\* that it has already overwritten
C20_OverlapNeverReadsOverwritten ==
    (tp.pc # "idle" /\ TpOverlap) => ~tp.stale

\* when both start at the same cell the transposition reads no overwritten
\* element and the destination ends as the transpose
SameStartTransposeSafe ==
    (tp.pc # "idle" /\ tp.off = 0)
       => /\ ~tp.stale
          /\ tp.pc = "done" => TpResultCorrect

\* when the ranges are disjoint the destination ends as the transpose
DisjointTransposeCorrect ==
    (tp.pc = "done" /\ ~TpOverlap) => ~tp.stale /\ TpResultCorrect

\* a partial overlap can end with a destination that is not the transpose
PartialOverlapTransposeCorrect ==
    (tp.pc = "done" /\ TpOverlap /\ tp.off # 0) => TpResultCorrect

-----------------------------------------------------------------------------
(* Properties of the element access (SpecAccess)                            *)

\* an index of the access lies outside the elements the object covers
AccOutOfBounds ==
    CASE acc.obj = "memory_slice_view" -> ~(acc.idx[1] < acc.end - acc.first)
      [] OTHER -> ~(acc.idx[1] < acc.R) \/ ~(acc.idx[2] < acc.C)

\* C21: an element access with an out-of-bounds index on a sparse matrix, a
\* dyn_matrix_view or a memory_slice_view fails an assertion and touches no
\* element
C21_OutOfBoundsAsserts ==
    (acc.obj # "none" /\ AccOutOfBounds) => acc.outcome = "assert"

\* the sparse matrix and the dyn_matrix_view assert on every out-of-bounds index
SparseAndViewOutOfBoundsAssert ==
    (acc.obj \in {"sparse_matrix", "dyn_matrix_view"} /\ AccOutOfBounds)
       => acc.outcome = "assert"

\* an access that is not refused touches an element of the container
AccessInsideContainer ==
    acc.outcome = "access" => acc.cell < acc.sub_size

-----------------------------------------------------------------------------
(* Properties of the cuDNN calls (SpecCudnn)                                *)

\* C22: after a cuDNN call of the kernel has returned an error status, no
\* later statement of the kernel is executed and the destination is not
\* marked valid on the GPU
C22_FailedCallTerminates ==
    cud.failed # 0 => cud.after = 0 /\ ~cud.marked

\* every error status is written to the error stream
CudnnErrorsAreLogged ==
    cud.failed # 0 => cud.logged > 0

\* a kernel whose calls all succeed leaves the destination valid on the GPU only
ActivationSuccessCoherent ==
    (cud.pc = "done" /\ cud.failed = 0) => cud.hs["y"].gpu /\ ~cud.hs["y"].cpu

-----------------------------------------------------------------------------
(* Properties of the temporary expressions (SpecTemporary)                  *)

\* the check of the expression passes on the extents of the operands and of
\* the destination
TmpCheckPasses ==
    CASE tmp.expr = "gemv" -> gemv_check(tmp.da, tmp.db, tmp.dc)
      [] tmp.expr = "bias_add" -> bias_add_check(tmp.da, tmp.db, tmp.dc)
      [] tmp.expr = "conv_1d_full" -> conv_1d_full_check(tmp.da, tmp.db, tmp.dc)
      [] OTHER -> TRUE

\* a kernel has been invoked
TmpKernelRan == \E s \in 1..Len(tmp.run) : tmp.run[s] = "kernel"

\* C23: assign_to of a temporary expression validates the extents as its
\* first statement, and no kernel runs on extents that violate the check
C23_CheckBeforeKernel ==
    tmp.expr # "none"
       => /\ tmp.run[1] = "check"
          /\ TmpKernelRan => TmpCheckPasses

\* gemv and conv_1d_full check first and run no kernel on invalid extents
GemvAndConvCheckBeforeKernel ==
    tmp.expr \in {"gemv", "conv_1d_full"}
       => /\ tmp.run[1] = "check"
          /\ TmpKernelRan => TmpCheckPasses

-----------------------------------------------------------------------------
(* Properties of the sequence generator (SpecAssign)                        *)

\* C24: after a new sequence_generator(s) is assigned to a container of n
\* elements, static or dynamic, vector or matrix, the element at row-major
\* flat index k holds s + k, for every k in [0, n)
C24_SequenceFillsRowMajor ==
    (asg.op = "=" /\ asg.src # <<>> /\ asg.src.gen)
       => /\ asg.outcome = "ok"
          /\ \A k \in 0..(size(dst) - 1) : dst.data[k + 1] = asg.src.start + k

\* a sequence starting at MaxStart has been assigned to a matrix
C24_Witness ==
    /\ asg.op = "=" /\ asg.src # <<>> /\ asg.src.gen /\ asg.src.start = MaxStart
    /\ Len(dst.dims) = 2
    /\ dst.data[size(dst)] = MaxStart + size(dst) - 1

-----------------------------------------------------------------------------
(* Properties of the optimizer of temporary expressions (SpecTempOptimize)  *)

\* the node a rewrite inside one operand has to hand on: the same operation,
\* the optimized operand in its position, the other operand as it was
TempRebuilt(e) ==
    CASE e[1] = "tun" -> TempUnary(e[2], optimize(e[3])[1])
      [] e[1] = "tbin" /\ is_optimizable_deep(e[3]) -> TempBinary(e[2], optimize(e[3])[1], e[4])
      [] OTHER -> TempBinary(e[2], e[3], optimize(e[4])[1])

\* C26: when the optimizer rewrites inside one operand of a temporary unary
\* or binary node, the rebuilt parent has the same operation, the optimized
\* child in the same operand position and every other operand unchanged
C26_TemporaryParentRebuilt ==
    (topt.expr # <<"none">> /\ is_optimizable_deep_temporary(topt.expr))
       => topt.out = TempRebuilt(topt.expr)

\* the temporary unary node is rebuilt around its optimized operand
TemporaryUnaryRebuilt ==
    (topt.expr[1] = "tun" /\ is_optimizable_deep_temporary(topt.expr))
       => topt.out = TempRebuilt(topt.expr)

\* a temporary node with no rewritable operand is handed on as it is
TemporaryUntouched ==
    (topt.expr # <<"none">> /\ ~is_optimizable_deep_temporary(topt.expr))
       => topt.out = topt.expr

-----------------------------------------------------------------------------
(* Properties of the vectorized products (SpecGemm)                         *)

GemmProduct == matrix_product(gm.A, gm.B, gm.M, gm.N, gm.K)

\* C27: gemm_cr_to_c and gemm_rc_to_c leave the product a * b in the
\* column-major c, whatever the sizes and the small-kernel threshold
C27_GemmToColumnMajor ==
    gm.fn \in {"gemm_cr_to_c", "gemm_rc_to_c"}
       => gm.c = column_major(GemmProduct, gm.M, gm.N)

\* with M * N at most the threshold, both functions leave the product in c
SmallGemmToColumnMajor ==
    (gm.fn \in {"gemm_cr_to_c", "gemm_rc_to_c"} /\ gm.M * gm.N <= gm.threshold)
       => gm.c = column_major(GemmProduct, gm.M, gm.N)

\* with M * N above the threshold, both functions leave c filled with zeros
LargeGemmLeavesZeros ==
    (gm.fn \in {"gemm_cr_to_c", "gemm_rc_to_c"} /\ gm.M * gm.N > gm.threshold)
       => gm.c = direct_fill_n(gm.M * gm.N)

\* C28: vec::gemm on column-major a and b and a row-major c leaves the
\* product a * b in c, in both of its branches
C28_GemmColumnMajorToRowMajor ==
    gm.fn = "gemm" => gm.c = row_major(GemmProduct, gm.M, gm.N)

\* the branch size(a) >= size(b) leaves the product in c
GemmSecondBranchCorrect ==
    (gm.fn = "gemm" /\ gm.M * gm.K >= gm.K * gm.N)
       => gm.c = row_major(GemmProduct, gm.M, gm.N)

-----------------------------------------------------------------------------
(* Properties of the sparse matrix (SpecSparse, SpecSparseProxies)          *)

\* the positions (i, j) for which get(i, j) is not zero
NonZeroPositions == {c \in SparseCells : sparse_get(sp.ents, c[1], c[2]) # 0}

\* the stored pairs are strictly increasing in row-major order
StoredIncreasing ==
    \A n \in 1..(Len(sp.ents) - 1) :
        \/ sp.ents[n][1] < sp.ents[n + 1][1]
        \/ (sp.ents[n][1] = sp.ents[n + 1][1] /\ sp.ents[n][2] < sp.ents[n + 1][2])

C29_StoredPairsIncreasing == ~sp.failed => StoredIncreasing

\* with the operations one after the other the stored pairs are increasing
\* and no hint is past the end
StoredIncreasingAlone == ~sp.failed /\ StoredIncreasing

\* while a proxy is alone its pointer is valid and its position holds its pair
ProxyAloneRefersToEntry ==
    \A p \in LiveProxies :
        sp.px[p].valid /\ stored_at(sp.ents, sp.px[p].i, sp.px[p].j, sp.px[p].n)

-----------------------------------------------------------------------------
(* Termination of optimized_forward (SpecOptFair)                           *)

\* the result functor has been called once, with an expression that has no
\* optimizable node
ForwardDone ==
    /\ opc = "done"
    /\ results = 1
    /\ \A n \in SubExprs(cur) : ~is_optimizable(n)

ForwardNeverLost == opc # "lost"

====
